---- MODULE Spec2Model ----
(***************************************************************************)
(* A model of the HOOT01 service runtime of hootpy                         *)
(* (python/hootpy/hootpy/service.py) together with the frame codec         *)
(* (frame.py), the envelope codec (protocol.py) and the reply handling of  *)
(* the client (client.py) that the service's replies are observed through. *)
(*                                                                         *)
(* A byte string is a record: [raw |-> <<b1, ..., bn>>] for explicit bytes *)
(* (each 0..255), or [capnp |-> m] for the Cap'n Proto serialisation of    *)
(* the message m (the serialisation itself is the pycapnp library's).      *)
(* A Python str is the sequence of its code points; a tool or variant name *)
(* is the sequence of its one-character strings.                           *)
(***************************************************************************)
EXTENDS Integers, Sequences, FiniteSets, TLC

(***************************************************************************)
(* Bounds of the model.                                                    *)
(***************************************************************************)
\* number of multipart messages the peers put on the service's socket
MaxMsgs == 2
\* number of peers (DEALER connections) talking to the service
NumPeers == 2
\* number of received-but-unread messages the socket queues
QueueCap == 1

(***************************************************************************)
(* frame.py: constants and enums                                           *)
(***************************************************************************)
Raw(b) == [raw |-> b]
IsRaw(p) == "raw" \in DOMAIN p
\* len() of a byte string of explicit bytes (the header parts of a frame)
BLen(p) == Len(p.raw)

PROTOCOL_VERSION == Raw(<<72, 79, 79, 84, 48, 49>>)
FRAME_COUNT == 7

READY == 1
REQUEST == 2
REPLY == 3
HEARTBEAT == 4
DISCONNECT == 5
Command == {READY, REQUEST, REPLY, HEARTBEAT, DISCONNECT}

EMPTY == 0
CAPNPROTO == 1
RAW_BINARY == 2
JSON == 3
ContentType == {EMPTY, CAPNPROTO, RAW_BINARY, JSON}

\* ContentType(...).name, as a sequence of characters
ContentTypeName(c) ==
    CASE c = EMPTY -> <<"E", "M", "P", "T", "Y">>
      [] c = CAPNPROTO -> <<"C", "A", "P", "N", "P", "R", "O", "T", "O">>
      [] c = RAW_BINARY -> <<"R", "A", "W", "_", "B", "I", "N", "A", "R", "Y">>
      [] c = JSON -> <<"J", "S", "O", "N">>

\* struct.pack(">H", v) and struct.unpack(">H", b[:2])[0]
PackH(v) == Raw(<<v \div 256, v % 256>>)
\* an unpack that reads the low byte only
UnpackLowByte(p) == p.raw[2]
UnpackH(p) == p.raw[1] * 256 + p.raw[2]

\* b[:n] of a byte string
Prefix(p, n) == Raw(SubSeq(p.raw, 1, IF n < Len(p.raw) THEN n ELSE Len(p.raw)))

(***************************************************************************)
(* UTF-8, for code points below 0x800 (one- and two-byte forms).  The      *)
(* byte strings the model feeds to it hold no lead byte of a three- or     *)
(* four-byte form, which this decoder would reject as well.                *)
(***************************************************************************)
RECURSIVE Utf8DecodeFrom(_, _)
Utf8DecodeFrom(b, i) ==
    IF i > Len(b) THEN [ok |-> TRUE, str |-> <<>>]
    ELSE IF b[i] < 128
         THEN LET r == Utf8DecodeFrom(b, i + 1)
              IN  IF r.ok THEN [ok |-> TRUE, str |-> <<b[i]>> \o r.str] ELSE r
    ELSE IF b[i] >= 194 /\ b[i] <= 223 /\ i + 1 <= Len(b)
            /\ b[i + 1] >= 128 /\ b[i + 1] <= 191
         THEN LET r == Utf8DecodeFrom(b, i + 2)
              IN  IF r.ok
                  THEN [ok |-> TRUE,
                        str |-> <<(b[i] - 192) * 64 + (b[i + 1] - 128)>> \o r.str]
                  ELSE r
    ELSE [ok |-> FALSE, str |-> <<>>]

\* bytes.decode("utf-8"): ok = FALSE stands for UnicodeDecodeError
Utf8Decode(p) == Utf8DecodeFrom(p.raw, 1)

RECURSIVE Utf8EncodeFrom(_, _)
Utf8EncodeFrom(s, i) ==
    IF i > Len(s) THEN <<>>
    ELSE (IF s[i] < 128 THEN <<s[i]>>
          ELSE <<192 + (s[i] \div 64), 128 + (s[i] % 64)>>)
         \o Utf8EncodeFrom(s, i + 1)

\* str.encode("utf-8")
Utf8Encode(s) == Raw(Utf8EncodeFrom(s, 1))

(***************************************************************************)
(* frame.py: HootFrame                                                     *)
(***************************************************************************)
\* identity: list[bytes] | None
None == [none |-> TRUE, parts |-> <<>>]
Ident(parts) == [none |-> FALSE, parts |-> parts]
\* truthiness of "if self.identity"
Truthy(identity) == ~identity.none /\ identity.parts # <<>>

\* dataclass HootFrame
HootFrame(command, content_type, request_id, service, traceparent, body, identity) ==
    [command |-> command, content_type |-> content_type,
     request_id |-> request_id, service |-> service,
     traceparent |-> traceparent, body |-> body, identity |-> identity]

\* a to_frames that writes the traceparent before the service name
to_frames_trace_first(f) ==
    <<PROTOCOL_VERSION, PackH(f.command), PackH(f.content_type),
      Raw(f.request_id), Utf8Encode(f.traceparent), Utf8Encode(f.service),
      f.body>>

to_frames(f) ==
    <<PROTOCOL_VERSION, PackH(f.command), PackH(f.content_type),
      Raw(f.request_id), Utf8Encode(f.service), Utf8Encode(f.traceparent),
      f.body>>

\* a to_frames_with_identity that leaves the identity out
to_frames_without_identity(f) == to_frames(f)

to_frames_with_identity(f) ==
    IF Truthy(f.identity) THEN f.identity.parts \o to_frames(f) ELSE to_frames(f)

\* index of the first part equal to the marker, 0 when there is none
ProtoIdx(frames) ==
    IF \E i \in 1..Len(frames) : frames[i] = PROTOCOL_VERSION
    THEN CHOOSE i \in 1..Len(frames) :
            /\ frames[i] = PROTOCOL_VERSION
            /\ \A j \in 1..(i - 1) : frames[j] # PROTOCOL_VERSION
    ELSE 0

FrameError(msg) == [ok |-> FALSE, error |-> msg]

\* the result is [ok |-> TRUE, identity, frame] or FrameError(...)
from_frames_with_identity(frames) ==
    LET proto_idx == ProtoIdx(frames) IN
    IF proto_idx = 0 THEN FrameError("Invalid protocol version: expected HOOT01")
    ELSE
    LET identity == IF proto_idx > 1 THEN Ident(SubSeq(frames, 1, proto_idx - 1))
                    ELSE None
        hoot_frames == SubSeq(frames, proto_idx, Len(frames))
    IN
    IF Len(hoot_frames) < FRAME_COUNT
    THEN FrameError("Missing frame: insufficient frames after HOOT01")
    ELSE
    LET cmd_frame == hoot_frames[2]
        ctype_frame == hoot_frames[3]
        reqid_frame == hoot_frames[4]
    IN
    IF BLen(cmd_frame) < 2
    THEN FrameError("Frame too short: command needs 2 bytes")
    ELSE IF UnpackH(cmd_frame) \notin Command THEN FrameError("Invalid command")
    ELSE IF BLen(ctype_frame) < 2
    THEN FrameError("Frame too short: content-type needs 2 bytes")
    ELSE IF UnpackH(ctype_frame) \notin ContentType
    THEN FrameError("Invalid content type")
    ELSE IF BLen(reqid_frame) < 16
    THEN FrameError("Frame too short: request ID needs 16 bytes")
    ELSE
    LET service == Utf8Decode(hoot_frames[5])
        traceparent == Utf8Decode(hoot_frames[6])
    IN
    IF ~service.ok THEN FrameError("Invalid UTF-8 in service name")
    ELSE IF ~traceparent.ok THEN FrameError("Invalid UTF-8 in traceparent")
    ELSE [ok |-> TRUE,
          identity |-> identity,
          frame |-> HootFrame(UnpackH(cmd_frame), UnpackH(ctype_frame),
                              Prefix(reqid_frame, 16).raw, service.str,
                              traceparent.str, hoot_frames[7], identity)]

\* HootFrame.from_frames: the identity prefix is discarded from the result
from_frames(frames) ==
    LET r == from_frames_with_identity(frames)
    IN  IF r.ok THEN [ok |-> TRUE, frame |-> r.frame] ELSE r

\* HootFrame.heartbeat(service); id is the value uuid4() returns
heartbeat(service, id) == HootFrame(HEARTBEAT, EMPTY, id, service, <<>>, Raw(<<>>), None)

\* HootFrame.request(service, body, content_type): the request id is the
\* uuid4 the call draws, id
request_frame(service, body, content_type, id) ==
    HootFrame(REQUEST, content_type, id, service, <<>>, body, None)

\* HootFrame.reply(request_id, body)
reply(request_id, body) == HootFrame(REPLY, CAPNPROTO, request_id, <<>>, <<>>, body, None)

(***************************************************************************)
(* protocol.py: the casing transform                                       *)
(***************************************************************************)
LowerAlpha ==
    <<"a", "b", "c", "d", "e", "f", "g", "h", "i", "j", "k", "l", "m",
      "n", "o", "p", "q", "r", "s", "t", "u", "v", "w", "x", "y", "z">>
UpperAlpha ==
    <<"A", "B", "C", "D", "E", "F", "G", "H", "I", "J", "K", "L", "M",
      "N", "O", "P", "Q", "R", "S", "T", "U", "V", "W", "X", "Y", "Z">>
\* str.lower() and str.upper() of the ASCII letters
LowerOf == [c \in {UpperAlpha[i] : i \in 1..26} |->
               LowerAlpha[CHOOSE i \in 1..26 : UpperAlpha[i] = c]]
UpperOf == [c \in {LowerAlpha[i] : i \in 1..26} |->
               UpperAlpha[CHOOSE i \in 1..26 : LowerAlpha[i] = c]]
IsUpper(c) == c \in DOMAIN LowerOf
IsLower(c) == c \in DOMAIN UpperOf
IsLetter(c) == IsUpper(c) \/ IsLower(c)
\* str.lower() and str.upper() of one character
ToLower(c) == IF IsUpper(c) THEN LowerOf[c] ELSE c
ToUpper(c) == IF IsLower(c) THEN UpperOf[c] ELSE c

RECURSIVE Flatten(_)
Flatten(ss) == IF ss = <<>> THEN <<>> ELSE Head(ss) \o Flatten(Tail(ss))

\* re.sub(r"(?<!^)(?=[A-Z])", "_", name).lower()
to_snake_case(name) ==
    Flatten([i \in 1..Len(name) |->
                IF i > 1 /\ IsUpper(name[i])
                THEN <<"_", ToLower(name[i])>>
                ELSE <<ToLower(name[i])>>])

\* components = name.split("_");
\* components[0] + "".join(x.title() for x in components[1:])
to_camel_case(name) ==
    Flatten([i \in 1..Len(name) |->
                IF name[i] = "_" THEN <<>>
                ELSE IF \A j \in 1..(i - 1) : name[j] # "_" THEN <<name[i]>>
                ELSE IF IsLetter(name[i - 1]) THEN <<ToLower(name[i])>>
                ELSE <<ToUpper(name[i])>>])

(***************************************************************************)
(* protocol.py: the envelope codec.  An Envelope message is                *)
(*   [id, traceparent, payload], payload one of                            *)
(*   [which |-> toolRequest,  variant, void, fields]                       *)
(*   [which |-> toolResponse, variant, void, fields]                       *)
(*   [which |-> error, code, message]                                      *)
(*   [which |-> <a simple variant>]                                        *)
(* variant and which are camelCase names of the schema; fields maps the    *)
(* camelCase field names of the variant's struct to their values.          *)
(***************************************************************************)
toolRequest == <<"t", "o", "o", "l", "R", "e", "q", "u", "e", "s", "t">>
toolResponse == <<"t", "o", "o", "l", "R", "e", "s", "p", "o", "n", "s", "e">>
error == <<"e", "r", "r", "o", "r">>

\* an error message: a fixed text and the value formatted into it
Msg(text, arg) == [text |-> text, arg |-> arg]

\* Python values held in a mapping: None and integers
PyNone == [none |-> TRUE]
PyInt(n) == [int |-> n]

\* id_builder.low / .high = int.from_bytes(request_id_bytes[..], "little");
\* each 64-bit integer is kept as its little-endian byte string
EnvelopeId(request_id_bytes) ==
    [low |-> SubSeq(request_id_bytes, 1, 8), high |-> SubSeq(request_id_bytes, 9, 16)]

\* _capnp_struct_to_dict: the fields of a struct under snake_case keys
capnp_struct_to_dict(fields) ==
    [k \in {to_snake_case(f) : f \in DOMAIN fields} |->
        fields[CHOOSE f \in DOMAIN fields : to_snake_case(f) = k]]

\* _dict_to_capnp_struct: the non-None entries under camelCase keys
dict_to_capnp_struct(data) ==
    LET keys == {k \in DOMAIN data : data[k] # PyNone}
    IN  [f \in {to_camel_case(k) : k \in keys} |->
            data[CHOOSE k \in keys : to_camel_case(k) = f]]

EmptyDict == [k \in {} |-> PyNone]

\* _decode_envelope_inner(msg) -> (payload_type, payload_dict)
decode_envelope_inner(msg) ==
    LET payload == msg.payload
        variant == payload.which
    IN  IF variant = toolRequest \/ variant = toolResponse
        THEN [type |-> to_snake_case(payload.variant),
              data |-> IF payload.void THEN EmptyDict
                       ELSE capnp_struct_to_dict(payload.fields)]
        ELSE IF variant = error
        THEN [type |-> error,
              data |-> [code |-> payload.code, message |-> payload.message]]
        ELSE [type |-> to_snake_case(variant), data |-> EmptyDict]

\* decode_envelope(body): Envelope.from_bytes raises on bytes that are not
\* a serialised message; ok = FALSE stands for that exception
decode_envelope(body) ==
    IF IsRaw(body)
    THEN [ok |-> FALSE, error |-> Msg("capnp: not a valid message", <<>>)]
    ELSE [ok |-> TRUE] @@ decode_envelope_inner(body.capnp)

decode_tool_request(body) == decode_envelope(body)

\* an encoder that writes the code internal_error whatever code it is given
encode_error_response_internal(request_id_bytes, code, message) ==
    [capnp |-> [id |-> EnvelopeId(request_id_bytes),
                traceparent |-> <<>>,
                payload |-> [which |-> error, code |-> "internal_error",
                             message |-> message]]]

\* encode_error_response(request_id_bytes, code, message)
encode_error_response(request_id_bytes, code, message) ==
    [capnp |-> [id |-> EnvelopeId(request_id_bytes),
                traceparent |-> <<>>,
                payload |-> [which |-> error, code |-> code, message |-> message]]]

\* encode_tool_response(request_id_bytes, response_type, response_data);
\* tool_response.init(camel_type) raises when the schema has no such variant
encode_tool_response(request_id_bytes, response_type, response_data) ==
    [capnp |-> [id |-> EnvelopeId(request_id_bytes),
                traceparent |-> <<>>,
                payload |-> [which |-> toolResponse,
                             variant |-> to_camel_case(response_type),
                             void |-> FALSE,
                             fields |-> dict_to_capnp_struct(response_data)]]]

\* the body encode_tool_request builds for a tool and its params
encode_tool_request(request_id_bytes, tool_name, params) ==
    [capnp |-> [id |-> EnvelopeId(request_id_bytes),
                traceparent |-> <<>>,
                payload |-> [which |-> toolRequest,
                             variant |-> to_camel_case(tool_name),
                             void |-> FALSE,
                             fields |-> dict_to_capnp_struct(params)]]]

(***************************************************************************)
(* The service under study and its peers                                   *)
(***************************************************************************)
echo == <<"e", "c", "h", "o">>
nope == <<"n", "o", "p", "e">>
value == <<"v", "a", "l", "u", "e">>

\* ModelService.TOOLS of the service
TOOLS == {echo}
\* ServiceConfig.name ("svc")
ServiceName == <<115, 118, 99>>

Peers == 1..NumPeers
\* the identity frame the ROUTER socket gives the connection of peer p
IdentityOf(p) == Raw(<<0, p>>)
\* a request id (uuid4) numbered n
Uuid(n) == [i \in 1..16 |-> IF i = 16 THEN n ELSE 0]

\* errors.py: ErrorCategory values
ErrorCategory ==
    {"validation", "not_found", "service", "internal", "cancelled",
     "timeout", "permission"}

\* the mapping {"value": 42}
EchoParams == [k \in {value} |-> PyInt(42)]

\* The multipart payloads a peer may send with request id n.  A DEALER peer
\* sends the 7 frames of a HootFrame; peers of other implementations may
\* send anything.
GarbageBody == Raw(<<123, 125>>)
RequestParts(n, content_type, body) ==
    to_frames(HootFrame(REQUEST, content_type, Uuid(n), ServiceName, <<>>, body, None))
SignalParts(n, command) ==
    to_frames(HootFrame(command, EMPTY, Uuid(n), ServiceName, <<>>, Raw(<<>>), None))
ErrorBody(n) == encode_error_response(Uuid(n), "x", Msg("x", <<>>))

Payload(n, kind) ==
    CASE kind = "valid" ->
            RequestParts(n, CAPNPROTO, encode_tool_request(Uuid(n), echo, EchoParams))
      [] kind = "unknown" ->
            RequestParts(n, CAPNPROTO, encode_tool_request(Uuid(n), nope, EchoParams))
      [] kind = "garbage" -> RequestParts(n, CAPNPROTO, GarbageBody)
      [] kind = "json_garbage" -> RequestParts(n, JSON, GarbageBody)
      [] kind = "json_unknown" ->
            RequestParts(n, JSON, encode_tool_request(Uuid(n), nope, EchoParams))
      [] kind = "heartbeat" -> SignalParts(n, HEARTBEAT)
      [] kind = "ready" -> SignalParts(n, READY)
      [] kind = "reply" -> to_frames(reply(Uuid(n), ErrorBody(n)))
      [] kind = "disconnect" -> SignalParts(n, DISCONNECT)
      [] kind = "no_marker" ->
            <<Raw(<<72, 79, 79, 84, 48, 50>>)>> \o Tail(SignalParts(n, HEARTBEAT))
      [] kind = "bad_command" -> [SignalParts(n, HEARTBEAT) EXCEPT ![2] = PackH(9)]

\* the kinds of payload the peers of this model send
Kinds ==
    {"valid", "unknown", "garbage", "json_garbage", "json_unknown",
     "heartbeat", "ready", "reply", "disconnect", "no_marker", "bad_command"}

(***************************************************************************)
(* errors.py and service.py: SingleJobGuard                                *)
(***************************************************************************)
\* ServiceError(message=..., service_name=..., code=..., retryable=...):
\* the category is the dataclass default, ErrorCategory.SERVICE
ServiceError(message, service_name, code, retryable) ==
    [category |-> "service", message |-> message, service_name |-> service_name,
     code |-> code, retryable |-> retryable]

\* a guard that admits every caller
try_acquire_always(b) == [ok |-> TRUE, busy |-> TRUE]

\* SingleJobGuard.try_acquire on a guard whose _busy is b
try_acquire(b) == IF b THEN [ok |-> FALSE, busy |-> b] ELSE [ok |-> TRUE, busy |-> TRUE]

\* a release that leaves the guard as it is
release_kept(b) == b

\* SingleJobGuard.release: the value _busy takes
release(b) == FALSE

\* a guard that admits a request while it is held
acquire_or_raise_reentrant(b) == [raised |-> FALSE, busy |-> TRUE]

\* SingleJobGuard.acquire_or_raise on entry: the guard is taken, or the
\* ServiceError is raised and the guard is left as it was
acquire_or_raise(b) ==
    LET r == try_acquire(b)
    IN  IF ~r.ok
        THEN [raised |-> TRUE, busy |-> r.busy,
              exc |-> ServiceError(Msg("Service is busy processing another request", <<>>),
                                   <<>>, "service_busy", TRUE)]
        ELSE [raised |-> FALSE, busy |-> r.busy]

(***************************************************************************)
(* State                                                                   *)
(***************************************************************************)
VARIABLES
    lpc,            \* where the main coroutine is: start() and _event_loop()
    running,        \* self._running
    sock,           \* self.socket: "none", "open" (bound) or "closed"
    ctx,            \* self.ctx: "none", "open" or "terminated"
    busy,           \* self.job_guard._busy
    inbox,          \* the messages queued on the socket, oldest first
    nsent,          \* how many messages the peers have sent
    tasks,          \* the pending tasks made by create_task, one per REQUEST
    out             \* what the last step did with a message: the message it
                    \* finished with and the send_multipart calls it made

\* the client, client.py
VARIABLES
    cfg,            \* self.config, a ClientConfig
    cpc,            \* where the caller of the client is: "new", "idle", or in
                    \* request(): "attempt", "polling", "sleeping",
                    \* "reconnecting"
    csock,          \* self.socket
    cinbox,         \* the replies queued on self.socket, oldest first
    failures,       \* self._consecutive_failures
    last_success,   \* self._last_success
    locals,         \* the locals of the running request(): timeout,
                    \* retry_delay, attempt
    sent,           \* the attempts the running request() has sent
    slept,          \* the delays the running request() has slept
    got,            \* the reply the running request() received, if any
    result,         \* how the last request() ended
    now,            \* what time.time() returned last; each reading is later
                    \* than the one before
    nuuid,          \* how many request ids uuid4() has handed out
    nreq            \* how many times request() was called

\* a second task that calls request() on the same HootClient
VARIABLES
    other           \* where that task is in its request(), and what it got

\* the codecs taken by themselves
VARIABLES
    arg,            \* the value a codec function is applied to
    ret             \* what the functions applied so far returned

\* a client and a service connected to each other
VARIABLES
    wire            \* how many attempts of the client reached the service, and
                    \* the calls of handle_request that returned

\* the headless runner, which calls a service without any socket
VARIABLES
    runner          \* a HeadlessRunner, the tasks calling it and its byte store

svars == <<lpc, running, sock, ctx, busy, inbox, nsent, tasks, out>>
cvars == <<cfg, cpc, csock, cinbox, failures, last_success, locals, sent, slept,
           got, result, now, nuuid, nreq>>
xvars == <<other, arg, ret, wire, runner>>
vars == <<svars, cvars, xvars>>

NoOutcome == [kind |-> "none"]
\* a step that finishes with no message
NoOut == [frames |-> <<>>, parsed |-> [ok |-> FALSE], outcome |-> NoOutcome, calls |-> <<>>]

\* the state after ModelService.__init__
ServiceCreated ==
    /\ lpc = "created"
    /\ running = FALSE
    /\ sock = "none"
    /\ ctx = "none"
    /\ busy = FALSE
    /\ inbox = <<>>
    /\ nsent = 0
    /\ tasks = {}
    /\ out = NoOut

(***************************************************************************)
(* client.py: ClientConfig and HootClient.__init__                         *)
(***************************************************************************)
\* the largest max_retries and the largest reconnect interval (ms) of the
\* configurations explored
MaxRetries == 2
MaxIvl == 2
\* how many times request() is called and how many replies the socket queues
MaxRequests == 2
ReplyCap == 1

\* ClientConfig(name, endpoint, ...) with the defaults of the dataclass for
\* timeout_ms and linger_ms
ClientConfig(max_retries, reconnect_ivl_ms, reconnect_ivl_max_ms) ==
    [name |-> ServiceName,
     timeout_ms |-> 30000,
     max_retries |-> max_retries,
     reconnect_ivl_ms |-> reconnect_ivl_ms,
     reconnect_ivl_max_ms |-> reconnect_ivl_max_ms,
     linger_ms |-> 0]

\* ClientConfig(name, endpoint): every default
DefaultConfig == ClientConfig(3, 1000, 60000)

\* the configurations explored; the dataclass validates nothing, so the
\* maximum interval may be less than the initial one
Configs ==
    {ClientConfig(n, i, m) : n \in 0..MaxRetries, i \in 1..MaxIvl, m \in 1..MaxIvl}

\* self.socket = None
NoSocket == [gen |-> 0]
\* no request() has ended
NoResult == [kind |-> "none"]
\* no request() is running
NoCall == [attempt |-> 0]

\* the state after HootClient.__init__(config)
ClientCreated(config) ==
    /\ cfg = config
    /\ cpc = "new"
    /\ csock = NoSocket
    /\ cinbox = <<>>
    /\ failures = 0
    /\ last_success = 0
    /\ locals = NoCall
    /\ sent = <<>>
    /\ slept = <<>>
    /\ got = <<>>
    /\ result = NoResult
    /\ now = 0
    /\ nuuid = 0
    /\ nreq = 0

\* no second task uses the client
NoOther == [pc |-> "none"]
\* no codec function is being applied
NoArg == [kind |-> "none"]
NoRet == [done |-> <<>>]
\* nothing went from the client to the service
NoWire == [up |-> 0, handled |-> <<>>]
\* HeadlessRunner(service_class): no service instance, not initialized, an
\* empty byte store; no task is inside initialize() or run_tool()
MaxInitTasks == 2
InitTasks == 1..MaxInitTasks
NoRun == [kind |-> "none"]
HeadlessRunner ==
    [service |-> 0,                 \* self.service: 0 is None, n the n-th instance
     initialized |-> FALSE,         \* self._initialized
     created |-> 0,                 \* instances of service_class made so far
     loads |-> 0,                   \* calls of load_model() so far
     pc |-> [t \in InitTasks |-> "idle"],  \* where each caller of initialize() is
     ninit |-> 0,                   \* calls of initialize() so far
     done |-> 0,                    \* calls of initialize() that returned
     nrun |-> 0,                    \* calls of run_tool() so far
     handled |-> 0,                 \* calls of service.handle_request() so far
     last_request |-> NoRun,        \* what the last of them was given
     cas |-> {},                    \* content hashes in the byte store
     result |-> NoRun]              \* how the last run_tool() ended
Unused ==
    /\ other = NoOther
    /\ wire = NoWire
    /\ arg = NoArg
    /\ ret = NoRet
    /\ runner = HeadlessRunner

\* a service and a client with the default configuration
Init == ServiceCreated /\ ClientCreated(DefaultConfig) /\ Unused

\* a service and a client with one of the configurations
ClientInit == ServiceCreated /\ Unused /\ \E config \in Configs : ClientCreated(config)

(***************************************************************************)
(* Sending                                                                 *)
(***************************************************************************)
\* socket.send_multipart(frames) on the ROUTER socket with ROUTER_MANDATORY:
\* the first frame addresses the peer; the call raises ZMQError when no
\* connected peer has that identity.  routed tells whether the peer the
\* frames address is still connected when the call is made.
SendOk(frames, routed) ==
    /\ routed
    /\ \E p \in Peers : frames[1] = IdentityOf(p)

\* str() of the ZMQError a failed send raises
ZmqErrorStr == Msg("Host unreachable", <<>>)
\* str() of the exception a failed encode raises
EncodeErrorStr == Msg("capnp: no such union member", <<>>)

\* one send_multipart call: what was passed, whether it returned, and the
\* state of the job guard when it was made
Call(frames, routed, b) == [frames |-> frames, ok |-> SendOk(frames, routed), busy |-> b]

\* the frames _send_error hands to _send_frame
send_error(request, identity, code, message) ==
    to_frames_with_identity(
        [reply(request.request_id,
               encode_error_response(request.request_id, code, message))
         EXCEPT !.identity = identity])

\* the frames _send_response hands to _send_frame
send_response(request, identity, response_type, response_data) ==
    to_frames_with_identity(
        [reply(request.request_id,
               encode_tool_response(request.request_id,
                                    response_type \o <<"_", "r", "e", "s", "p", "o", "n", "s", "e">>,
                                    response_data))
         EXCEPT !.identity = identity])

\* _handle_request_safe's except clause: the exception that left
\* _handle_request is answered with internal_error and its string form
SafeCalls(request, identity, routed, b) ==
    <<Call(send_error(request, identity, "internal_error", ZmqErrorStr), routed, b)>>

\* an error reply that _handle_request_safe answers again even when it was sent
ErrorCallsAnsweredTwice(request, identity, code, message, routed, b) ==
    <<Call(send_error(request, identity, code, message), routed, b)>>
        \o SafeCalls(request, identity, routed, b)

\* an error reply sent from inside _handle_request; when the send raises,
\* the ZMQError leaves _handle_request and _handle_request_safe answers it
ErrorCalls(request, identity, code, message, routed, b) ==
    LET c == Call(send_error(request, identity, code, message), routed, b)
    IN  IF c.ok THEN <<c>> ELSE <<c>> \o SafeCalls(request, identity, routed, b)

(***************************************************************************)
(* ModelService.start and the accept loop                                  *)
(***************************************************************************)
\* a start() that enters the loop without awaiting load_model()
StartRunsAtOnce ==
    /\ lpc = "created"
    /\ ctx' = "open"
    /\ sock' = "open"
    /\ running' = TRUE
    /\ lpc' = "top"
    /\ out' = NoOut
    /\ UNCHANGED <<cvars, xvars, busy, inbox, nsent, tasks>>

\* start(): the context and the ROUTER socket are created, configured and
\* bound; start() then awaits load_model()
Start ==
    /\ lpc = "created"
    /\ ctx' = "open"
    /\ sock' = "open"
    /\ lpc' = "loading"
    /\ out' = NoOut
    /\ UNCHANGED <<cvars, xvars, running, busy, inbox, nsent, tasks>>

\* load_model() completes: the signal handlers are installed, _running is
\* set and _event_loop() is entered; or it raises and start() is left
LoadModel(ok) ==
    /\ lpc = "loading"
    /\ IF ok THEN running' = TRUE /\ lpc' = "top"
             ELSE running' = running /\ lpc' = "load_failed"
    /\ out' = NoOut
    /\ UNCHANGED <<cvars, xvars, ctx, sock, busy, inbox, nsent, tasks>>

\* _shutdown(), the task a SIGINT or SIGTERM creates
Shutdown ==
    /\ lpc \in {"top", "polling"}
    /\ running
    /\ running' = FALSE
    /\ out' = NoOut
    /\ UNCHANGED <<cvars, xvars, ctx, lpc, sock, busy, inbox, nsent, tasks>>

\* a loop that polls whatever _running says
LoopPollUnconditional ==
    /\ lpc = "top"
    /\ lpc' = "polling"
    /\ out' = NoOut
    /\ UNCHANGED <<cvars, xvars, ctx, running, sock, busy, inbox, nsent, tasks>>

\* "while self._running:" holds and poll(timeout=1000) is awaited
LoopPoll ==
    /\ lpc = "top"
    /\ running
    /\ lpc' = "polling"
    /\ out' = NoOut
    /\ UNCHANGED <<cvars, xvars, ctx, running, sock, busy, inbox, nsent, tasks>>

\* a loop that awaits each request it dispatched before it polls again
NoPendingTask == tasks = {}

\* The event loop runs the callbacks that are ready, in the order they were
\* scheduled, before it looks at the sockets again: a task made by
\* create_task has run up to its first suspension before poll() returns.
NoReadyTask == \A t \in tasks : t.pc # "start"

\* a poll timeout that gives up on the handler and frees the guard
PollTimeoutReleases ==
    /\ lpc = "polling"
    /\ \A t \in tasks : t.pc # "start"
    /\ inbox = <<>>
    /\ lpc' = "top"
    /\ busy' = FALSE
    /\ out' = NoOut
    /\ UNCHANGED <<cvars, xvars, ctx, running, sock, inbox, nsent, tasks>>

\* poll() returns 0 after its timeout
PollTimeout ==
    /\ lpc = "polling"
    /\ NoReadyTask
    /\ inbox = <<>>
    /\ lpc' = "top"
    /\ out' = NoOut
    /\ UNCHANGED <<cvars, xvars, ctx, running, sock, busy, inbox, nsent, tasks>>

\* poll() reports a message and recv_multipart() returns the oldest one
CanRecv ==
    /\ lpc = "polling"
    /\ NoReadyTask
    /\ inbox # <<>>

\* what from_frames_with_identity makes of the message
Parsed == {from_frames_with_identity(Head(inbox))}

\* from_frames_with_identity raises FrameError: "except Exception" logs it
RecvInvalid ==
    /\ CanRecv
    /\ \E parsed \in Parsed :
          /\ ~parsed.ok
          /\ out' = [frames |-> Head(inbox), parsed |-> parsed,
                     outcome |-> NoOutcome, calls |-> <<>>]
    /\ inbox' = Tail(inbox)
    /\ lpc' = "top"
    /\ UNCHANGED <<cvars, xvars, ctx, running, sock, busy, nsent, tasks>>

\* a heartbeat reply that keeps the request id heartbeat() generated
handle_heartbeat_fresh_id(frame, identity, id) ==
    to_frames_with_identity([heartbeat(ServiceName, id) EXCEPT !.identity = identity])

\* the frames _handle_heartbeat(frame, identity) hands to _send_frame
handle_heartbeat(frame, identity, id) ==
    to_frames_with_identity(
        [heartbeat(ServiceName, id) EXCEPT !.request_id = frame.request_id,
                                           !.identity = identity])

\* _handle_heartbeat is awaited inside the loop; a ZMQError of the send is
\* logged by the loop.  (_last_heartbeat, a clock reading nothing reads, is
\* not part of the state.)
RecvHeartbeat(routed) ==
    /\ CanRecv
    /\ \E parsed \in Parsed, id \in {Uuid(0)} :
          /\ parsed.ok
          /\ parsed.frame.command = HEARTBEAT
          /\ out' = [frames |-> Head(inbox), parsed |-> parsed, outcome |-> NoOutcome,
                     calls |-> <<Call(handle_heartbeat(parsed.frame, parsed.identity, id),
                                      routed, busy)>>]
    /\ inbox' = Tail(inbox)
    /\ lpc' = "top"
    /\ UNCHANGED <<cvars, xvars, ctx, running, sock, busy, nsent, tasks>>

\* asyncio.create_task(self._handle_request_safe(frame, identity))
RecvRequest ==
    /\ CanRecv
    /\ \E parsed \in Parsed :
          /\ parsed.ok
          /\ parsed.frame.command = REQUEST
          /\ tasks' = tasks \cup {[pc |-> "start", frames |-> Head(inbox),
                                   frame |-> parsed.frame, identity |-> parsed.identity]}
    /\ inbox' = Tail(inbox)
    /\ lpc' = "top"
    /\ out' = NoOut
    /\ UNCHANGED <<cvars, xvars, ctx, running, sock, busy, nsent>>

\* a loop that stops when a peer announces DISCONNECT
RecvOtherStops ==
    /\ lpc = "polling"
    /\ \A t \in tasks : t.pc # "start"
    /\ inbox # <<>>
    /\ \E parsed \in {from_frames_with_identity(Head(inbox))} :
          /\ parsed.ok
          /\ parsed.frame.command \notin {HEARTBEAT, REQUEST}
          /\ running' = (parsed.frame.command # DISCONNECT)
          /\ out' = [frames |-> Head(inbox), parsed |-> parsed,
                     outcome |-> NoOutcome, calls |-> <<>>]
    /\ inbox' = Tail(inbox)
    /\ lpc' = "top"
    /\ UNCHANGED <<cvars, xvars, ctx, sock, busy, nsent, tasks>>

\* neither branch of the if/elif is taken
RecvOther ==
    /\ CanRecv
    /\ \E parsed \in Parsed :
          /\ parsed.ok
          /\ parsed.frame.command \notin {HEARTBEAT, REQUEST}
          /\ out' = [frames |-> Head(inbox), parsed |-> parsed,
                     outcome |-> NoOutcome, calls |-> <<>>]
    /\ inbox' = Tail(inbox)
    /\ lpc' = "top"
    /\ UNCHANGED <<cvars, xvars, ctx, running, sock, busy, nsent, tasks>>

\* "while self._running:" fails and the cleanup begins: self.socket.close()
LoopExit ==
    /\ lpc = "top"
    /\ ~running
    /\ sock' = "closed"
    /\ lpc' = "closing"
    /\ out' = NoOut
    /\ UNCHANGED <<cvars, xvars, ctx, running, busy, inbox, nsent, tasks>>

\* self.ctx.term(), after which _event_loop() and start() return
CtxTerm ==
    /\ lpc = "closing"
    /\ ctx' = "terminated"
    /\ lpc' = "stopped"
    /\ out' = NoOut
    /\ UNCHANGED <<cvars, xvars, running, sock, busy, inbox, nsent, tasks>>

\* asyncio.run(main()): when main() has returned the tasks still pending are
\* cancelled; the CancelledError leaves "async with acquire_or_raise()"
\* through its finally clause and is not an Exception
Teardown ==
    /\ lpc = "stopped"
    /\ lpc' = "exited"
    /\ tasks' = {}
    /\ busy' = IF \E t \in tasks : t.pc = "handler" THEN release(busy) ELSE busy
    /\ out' = NoOut
    /\ UNCHANGED <<cvars, xvars, ctx, running, sock, inbox, nsent>>

\* the cleanup does not await, and between the end of start() and the
\* cancellation nothing else runs
LoopAlive == lpc \notin {"closing", "stopped", "exited"}

(***************************************************************************)
(* _handle_request_safe / _handle_request, one task per REQUEST             *)
(***************************************************************************)
\* a reply that treats a ToolError as any other exception: internal_error
\* with str(e), which is "[category] message"
ToolErrorReplyAsException(category, message) ==
    [code |-> "internal_error", message |-> Msg("[] ", <<category, message>>)]

\* "except ToolError as e": the code and message handed to _send_error are
\* e.category.value and e.message
ToolErrorReply(category, message) == [code |-> category, message |-> message]

\* a dispatch that decodes the body before it looks at the content type
DispatchDecodeFirst(frame, b) ==
    LET d == decode_tool_request(frame.body) IN
    IF ~d.ok
    THEN [admit |-> FALSE, code |-> "decode_error", message |-> d.error]
    ELSE IF frame.content_type # CAPNPROTO
    THEN [admit |-> FALSE, code |-> "invalid_content_type",
          message |-> Msg("Expected CapnProto, got ", ContentTypeName(frame.content_type))]
    ELSE IF d.type \notin TOOLS
    THEN [admit |-> FALSE, code |-> "unknown_tool", message |-> Msg("Unknown tool: ", d.type)]
    ELSE
    LET g == acquire_or_raise(b) IN
    IF g.raised
    THEN [admit |-> FALSE, code |-> g.exc.category, message |-> g.exc.message]
    ELSE [admit |-> TRUE, tool |-> d.type, params |-> d.data]

\* the checks of _handle_request up to the job guard, on a guard whose
\* _busy is b: the error to reply with, or the admission
Dispatch(frame, b) ==
    IF frame.content_type # CAPNPROTO
    THEN [admit |-> FALSE, code |-> "invalid_content_type",
          message |-> Msg("Expected CapnProto, got ", ContentTypeName(frame.content_type))]
    ELSE
    LET d == decode_tool_request(frame.body) IN
    IF ~d.ok
    THEN [admit |-> FALSE, code |-> "decode_error", message |-> d.error]
    ELSE IF d.type \notin TOOLS
    THEN [admit |-> FALSE, code |-> "unknown_tool", message |-> Msg("Unknown tool: ", d.type)]
    ELSE
    LET g == acquire_or_raise(b) IN
    IF g.raised
    THEN \* except ToolError as e: _send_error(..., e.category.value, e.message)
         [admit |-> FALSE,
          code |-> ToolErrorReply(g.exc.category, g.exc.message).code,
          message |-> ToolErrorReply(g.exc.category, g.exc.message).message]
    ELSE [admit |-> TRUE, tool |-> d.type, params |-> d.data]

\* the parse result the task was created from
ParsedOf(t) == [ok |-> TRUE, identity |-> t.identity, frame |-> t.frame]

\* the task runs up to a rejection, whose error reply it sends
TaskReject(t, routed) ==
    /\ LoopAlive
    /\ t.pc = "start"
    /\ \E d \in {Dispatch(t.frame, busy)} :
          /\ ~d.admit
          /\ out' = [frames |-> t.frames, parsed |-> ParsedOf(t), outcome |-> NoOutcome,
                     calls |-> ErrorCalls(t.frame, t.identity, d.code, d.message,
                                          routed, busy)]
    /\ tasks' = tasks \ {t}
    /\ UNCHANGED <<cvars, xvars, ctx, lpc, running, sock, busy, inbox, nsent>>

\* the task takes the job guard and awaits handle_request(tool_name, params)
TaskAdmit(t) ==
    /\ LoopAlive
    /\ t.pc = "start"
    /\ \E d \in {Dispatch(t.frame, busy)} :
          /\ d.admit
          /\ busy' = acquire_or_raise(busy).busy
          /\ tasks' = (tasks \ {t}) \cup
                         {[t EXCEPT !.pc = "handler"] @@ [tool |-> d.tool, params |-> d.params]}
    /\ out' = NoOut
    /\ UNCHANGED <<cvars, xvars, ctx, lpc, running, sock, inbox, nsent>>

\* a handler whose guard stays held when the reply cannot be sent
HandlerReturnHoldsOnFailedSend(t, response, encodes, routed) ==
    /\ LoopAlive
    /\ t.pc = "handler"
    /\ LET c == Call(send_response(t.frame, t.identity, t.tool, response),
                     routed, busy)
           cs == IF ~encodes
                 THEN ErrorCalls(t.frame, t.identity, "internal_error", EncodeErrorStr,
                                 routed, release(busy))
                 ELSE IF c.ok THEN <<c>>
                 ELSE <<c>> \o ErrorCalls(t.frame, t.identity, "internal_error", ZmqErrorStr,
                                          routed, busy)
       IN  /\ out' = [frames |-> t.frames, parsed |-> ParsedOf(t),
                      outcome |-> [kind |-> "return", response |-> response,
                                   encodes |-> encodes],
                      calls |-> cs]
           /\ busy' = IF encodes /\ ~c.ok THEN busy ELSE release(busy)
    /\ tasks' = tasks \ {t}
    /\ UNCHANGED <<cvars, xvars, ctx, lpc, running, sock, inbox, nsent>>

\* handle_request returns response; _send_response encodes and sends it
\* inside the guard; an exception of either leaves the "async with" (the
\* guard is released) and is answered by "except Exception"
HandlerReturn(t, response, encodes, routed) ==
    /\ LoopAlive
    /\ t.pc = "handler"
    /\ LET c == Call(send_response(t.frame, t.identity, t.tool, response),
                     routed, busy)
           cs == IF ~encodes
                 THEN ErrorCalls(t.frame, t.identity, "internal_error", EncodeErrorStr,
                                 routed, release(busy))
                 ELSE IF c.ok THEN <<c>>
                 ELSE <<c>> \o ErrorCalls(t.frame, t.identity, "internal_error", ZmqErrorStr,
                                          routed, release(busy))
       IN  out' = [frames |-> t.frames, parsed |-> ParsedOf(t),
                   outcome |-> [kind |-> "return", response |-> response, encodes |-> encodes],
                   calls |-> cs]
    /\ tasks' = tasks \ {t}
    /\ busy' = release(busy)
    /\ UNCHANGED <<cvars, xvars, ctx, lpc, running, sock, inbox, nsent>>

\* handle_request raises ToolError(category, message): "except ToolError"
HandlerRaiseToolError(t, category, message, routed) ==
    /\ LoopAlive
    /\ t.pc = "handler"
    /\ out' = [frames |-> t.frames, parsed |-> ParsedOf(t),
               outcome |-> [kind |-> "ToolError", category |-> category, message |-> message],
               calls |-> ErrorCalls(t.frame, t.identity,
                                    ToolErrorReply(category, message).code,
                                    ToolErrorReply(category, message).message,
                                    routed, release(busy))]
    /\ tasks' = tasks \ {t}
    /\ busy' = release(busy)
    /\ UNCHANGED <<cvars, xvars, ctx, lpc, running, sock, inbox, nsent>>

\* handle_request raises another exception whose str() is message
HandlerRaiseException(t, message, routed) ==
    /\ LoopAlive
    /\ t.pc = "handler"
    /\ out' = [frames |-> t.frames, parsed |-> ParsedOf(t),
               outcome |-> [kind |-> "Exception", message |-> message],
               calls |-> ErrorCalls(t.frame, t.identity, "internal_error", message,
                                    routed, release(busy))]
    /\ tasks' = tasks \ {t}
    /\ busy' = release(busy)
    /\ UNCHANGED <<cvars, xvars, ctx, lpc, running, sock, inbox, nsent>>

(***************************************************************************)
(* The peers                                                               *)
(***************************************************************************)
\* a peer sends a message; the ROUTER socket prepends the peer's identity
PeerSend(p, kind) ==
    /\ sock = "open"
    /\ nsent < MaxMsgs
    /\ Len(inbox) < QueueCap
    /\ nsent' = nsent + 1
    /\ inbox' = Append(inbox, <<IdentityOf(p)>> \o Payload(nsent + 1, kind))
    /\ out' = NoOut
    /\ UNCHANGED <<cvars, xvars, ctx, lpc, running, sock, busy, tasks>>

\* what handle_request may return or raise
Responses == {EchoParams}
HandlerMessages == {Msg("boom", <<>>)}

Next ==
    \/ Start
    \/ \E ok \in BOOLEAN : LoadModel(ok)
    \/ Shutdown
    \/ LoopPoll
    \/ PollTimeout
    \/ RecvInvalid
    \/ \E routed \in BOOLEAN : RecvHeartbeat(routed)
    \/ RecvRequest
    \/ RecvOther
    \/ LoopExit
    \/ CtxTerm
    \/ Teardown
    \/ \E t \in tasks, routed \in BOOLEAN : TaskReject(t, routed)
    \/ \E t \in tasks : TaskAdmit(t)
    \/ \E t \in tasks, r \in Responses, e \in BOOLEAN, routed \in BOOLEAN :
          HandlerReturn(t, r, e, routed)
    \/ \E t \in tasks, c \in ErrorCategory, m \in HandlerMessages, routed \in BOOLEAN :
          HandlerRaiseToolError(t, c, m, routed)
    \/ \E t \in tasks, m \in HandlerMessages, routed \in BOOLEAN :
          HandlerRaiseException(t, m, routed)
    \/ \E p \in Peers, kind \in Kinds : PeerSend(p, kind)

Spec == Init /\ [][Next]_vars

\* The accept loop is a coroutine the event loop keeps running: poll() returns
\* when a message is queued or its timeout passes, and a task made by
\* create_task is run.  Nothing makes handle_request return.
LiveSpec ==
    /\ Spec
    /\ WF_vars(LoopPoll)
    /\ WF_vars(PollTimeout)
    /\ WF_vars(RecvInvalid)
    /\ WF_vars(\E routed \in BOOLEAN : RecvHeartbeat(routed))
    /\ WF_vars(RecvRequest)
    /\ WF_vars(RecvOther)
    /\ WF_vars(LoopExit)
    /\ WF_vars(CtxTerm)
    /\ WF_vars(\E t \in tasks, routed \in BOOLEAN : TaskReject(t, routed))
    /\ WF_vars(\E t \in tasks : TaskAdmit(t))

(***************************************************************************)
(* client.py: what the client makes of a reply                             *)
(***************************************************************************)
\* _request_once from recv_multipart on: the reply is parsed, its envelope
\* decoded, and an "error" payload raised as ServiceError (whose retryable
\* is the dataclass default, False)
request_once_reply(frames, name) ==
    LET r == from_frames(frames) IN
    IF ~r.ok THEN [raised |-> "FrameError"]
    ELSE
    LET d == decode_envelope(r.frame.body) IN
    IF ~d.ok THEN [raised |-> "Exception"]
    ELSE IF d.type = error
    THEN [raised |-> "ServiceError",
          exc |-> ServiceError(d.data.message, name, d.data.code, FALSE)]
    ELSE [raised |-> "none", data |-> d.data]

(***************************************************************************)
(* client.py: HootClient                                                   *)
(***************************************************************************)
\* "timeout_ms or self.config.timeout_ms": None and 0 are falsy
TimeoutOr(timeout_ms, default) ==
    IF timeout_ms \in {PyNone, PyInt(0)} THEN default ELSE timeout_ms.int

\* the timeout_ms arguments request() is called with
TimeoutArgs == {PyNone, PyInt(0), PyInt(5000)}

\* TimeoutError(message=..., timeout_ms=...): the category is the dataclass
\* default, ErrorCategory.TIMEOUT
TimeoutError(message, timeout_ms) ==
    [category |-> "timeout", message |-> message, timeout_ms |-> timeout_ms]

\* _configure_socket: the options set on self.socket
configure_socket(config) ==
    [RECONNECT_IVL |-> config.reconnect_ivl_ms,
     RECONNECT_IVL_MAX |-> config.reconnect_ivl_max_ms,
     LINGER |-> config.linger_ms]

\* self.ctx.socket(zmq.DEALER) followed by _configure_socket() and connect();
\* gen tells the sockets of one client apart
NewSocket(gen, config) == [gen |-> gen, opts |-> configure_socket(config)]

\* a _reconnect that goes on with the socket it has
reconnect_keeps_socket(socket, config) == socket

\* _reconnect: the socket is closed and a new DEALER socket takes its place
reconnect(socket, config) == NewSocket(socket.gen + 1, config)

\* a loop that makes max_retries attempts in all
attempts_without_first(config) == config.max_retries

\* "for attempt in range(self.config.max_retries + 1)": how many times the
\* loop body runs at most
attempts(config) == config.max_retries + 1

\* a retry loop that also catches the errors of the service
retried_any_failure(raised) == raised \in {"asyncio.TimeoutError", "ServiceError"}

\* "except asyncio.TimeoutError": the exceptions of _request_once that the
\* loop of request() catches
retried(raised) == raised = "asyncio.TimeoutError"

\* a success that leaves the failure counter alone
request_once_success_keeps_count(count, time) ==
    [failures |-> count, last_success |-> time]

\* _request_once on success: "self._consecutive_failures = 0" and
\* "self._last_success = time.time()"
request_once_success(count, time) == [failures |-> 0, last_success |-> time]

\* a _request_once that takes a reply with another request id for no reply
request_once_recv_strict(frames, request_id, name) ==
    IF from_frames(frames).ok /\ from_frames(frames).frame.request_id # request_id
    THEN [raised |-> "asyncio.TimeoutError"]
    ELSE request_once_reply(frames, name)

\* _request_once after recv_multipart, for a request sent with request_id:
\* the ids are compared for a log.warning and nothing else
request_once_recv(frames, request_id, name) == request_once_reply(frames, name)

\* "retry_delay = min(retry_delay * 2, reconnect_ivl_max_ms / 1000.0)".  The
\* delays are kept in milliseconds; the code keeps them in seconds.
next_retry_delay(retry_delay, config) ==
    IF retry_delay * 2 <= config.reconnect_ivl_max_ms
    THEN retry_delay * 2
    ELSE config.reconnect_ivl_max_ms

\* how request() ends when _request_once ends as r
Outcome(r) ==
    CASE r.raised = "none" -> [kind |-> "return", data |-> r.data]
      [] r.raised = "ServiceError" -> [kind |-> "ServiceError", exc |-> r.exc]
      [] OTHER -> [kind |-> r.raised]

\* the frames of the attempt _request_once sends with request id id
RequestOnceFrames(id) ==
    to_frames(request_frame(cfg.name, encode_tool_request(id, echo, locals.params),
                            CAPNPROTO, id))

\* the multipart replies the peer may send with request id n
ReplyParts(n, kind) ==
    CASE kind = "ok" ->
            to_frames(reply(Uuid(n), encode_tool_response(Uuid(n), echo, EchoParams)))
      [] kind = "error" ->
            to_frames(reply(Uuid(n),
                            encode_error_response(Uuid(n), "not_found",
                                                  Msg("X not found", <<>>))))
      [] kind = "garbage" -> to_frames(reply(Uuid(n), GarbageBody))
      [] kind = "heartbeat" -> SignalParts(n, HEARTBEAT)
      [] kind = "request" -> Payload(n, "valid")
      [] kind = "bad_command" -> Payload(n, "bad_command")

ReplyKinds == {"ok", "error", "garbage", "heartbeat", "request", "bad_command"}

\* connect()
Connect ==
    /\ cpc = "new"
    /\ csock' = NewSocket(1, cfg)
    /\ cpc' = "idle"
    /\ UNCHANGED <<svars, xvars, cfg, cinbox, failures, last_success, locals, sent, slept,
                   got, result, now, nuuid, nreq>>

\* a request() that connects by itself when there is no socket
RequestConnectsFirst ==
    /\ cpc = "new"
    /\ nreq < MaxRequests
    /\ nreq' = nreq + 1
    /\ csock' = NewSocket(1, cfg)
    /\ result' = [kind |-> "ServiceError",
                  exc |-> ServiceError(Msg("Client not connected", <<>>), cfg.name,
                                       "not_connected", FALSE)]
    /\ UNCHANGED <<svars, xvars, cfg, cpc, cinbox, failures, last_success, locals,
                   sent, slept, got, now, nuuid>>

\* request() before connect(): "if not self.socket"
RequestNotConnected ==
    /\ cpc = "new"
    /\ nreq < MaxRequests
    /\ nreq' = nreq + 1
    /\ result' = [kind |-> "ServiceError",
                  exc |-> ServiceError(Msg("Client not connected", <<>>), cfg.name,
                                       "not_connected", FALSE)]
    /\ UNCHANGED <<svars, xvars, cfg, cpc, csock, cinbox, failures, last_success, locals,
                   sent, slept, got, now, nuuid>>

\* the loop of request() is left without an attempt in flight: the
\* "raise TimeoutError" after the loop
LoopEnds(timeout) ==
    [kind |-> "TimeoutError",
     exc |-> TimeoutError(Msg("Request to  failed", cfg.name), timeout)]

\* request(tool_name, params, timeout_ms) on a connected client, up to the
\* first iteration of the loop
RequestWith(timeout_ms, params) ==
    /\ cpc = "idle"
    /\ nreq < MaxRequests
    /\ nreq' = nreq + 1
    /\ locals' = [timeout |-> TimeoutOr(timeout_ms, cfg.timeout_ms),
                  timeout_ms |-> timeout_ms,
                  params |-> params,
                  retry_delay |-> cfg.reconnect_ivl_ms,
                  attempt |-> 0]
    /\ sent' = <<>>
    /\ slept' = <<>>
    /\ got' = <<>>
    /\ IF 0 < attempts(cfg)
       THEN cpc' = "attempt" /\ result' = NoResult
       ELSE cpc' = "idle" /\ result' = LoopEnds(locals'.timeout)
    /\ UNCHANGED <<svars, xvars, cfg, csock, cinbox, failures, last_success, now, nuuid>>

\* request("echo", {"value": 42}, timeout_ms)
Request(timeout_ms) == RequestWith(timeout_ms, EchoParams)

\* is_healthy: "return self._consecutive_failures < 5"
is_healthy(count) == count < 5

\* a _request_once that sends only from a healthy client
RequestOnceSendIfHealthy ==
    /\ cpc = "attempt"
    /\ is_healthy(failures)
    /\ nuuid' = nuuid + 1
    /\ sent' = Append(sent, [request_id |-> Uuid(nuuid + 1),
                             socket |-> csock,
                             frames |-> RequestOnceFrames(Uuid(nuuid + 1))])
    /\ cpc' = "polling"
    /\ UNCHANGED <<svars, xvars, cfg, csock, cinbox, failures, last_success, locals,
                   slept, got, result, now, nreq>>

\* _request_once up to the poll: a frame with a new uuid4 is built and sent
RequestOnceSend ==
    /\ cpc = "attempt"
    /\ nuuid' = nuuid + 1
    /\ sent' = Append(sent, [request_id |-> Uuid(nuuid + 1),
                             socket |-> csock,
                             frames |-> RequestOnceFrames(Uuid(nuuid + 1))])
    /\ cpc' = "polling"
    /\ UNCHANGED <<svars, xvars, cfg, csock, cinbox, failures, last_success, locals, slept,
                   got, result, now, nreq>>

\* a loop that counts every failed attempt, the errors of the service too
AttemptRaisesCountsAll(r) ==
    IF retried(r.raised)
    THEN /\ failures' = failures + 1
         /\ IF locals.attempt < cfg.max_retries
            THEN cpc' = "sleeping" /\ result' = result
            ELSE /\ cpc' = "idle"
                 /\ result' = [kind |-> "TimeoutError",
                               exc |-> TimeoutError(
                                           Msg("Request to  timed out after  attempts",
                                               <<cfg.name, cfg.max_retries + 1>>),
                                           locals.timeout)]
    ELSE /\ failures' = failures + 1
         /\ cpc' = "idle"
         /\ result' = IF r.raised = "ServiceError"
                      THEN [kind |-> "ServiceError", exc |-> r.exc]
                      ELSE [kind |-> r.raised]

\* the attempt ends with an exception: the loop of request() catches it, counts
\* it and retries or raises TimeoutError, or lets it pass
AttemptRaises(r) ==
    IF retried(r.raised)
    THEN /\ failures' = failures + 1
         /\ IF locals.attempt < cfg.max_retries
            THEN cpc' = "sleeping" /\ result' = result
            ELSE /\ cpc' = "idle"
                 /\ result' = [kind |-> "TimeoutError",
                               exc |-> TimeoutError(
                                           Msg("Request to  timed out after  attempts",
                                               <<cfg.name, cfg.max_retries + 1>>),
                                           locals.timeout)]
    ELSE /\ failures' = failures
         /\ cpc' = "idle"
         /\ result' = IF r.raised = "ServiceError"
                      THEN [kind |-> "ServiceError", exc |-> r.exc]
                      ELSE [kind |-> r.raised]

\* poll() reports a reply and recv_multipart() returns the oldest one
RequestOnceRecv ==
    /\ cpc = "polling"
    /\ cinbox # <<>>
    /\ cinbox' = Tail(cinbox)
    /\ got' = Head(cinbox)
    /\ \E r \in {request_once_recv(Head(cinbox), sent[Len(sent)].request_id, cfg.name)} :
          IF r.raised = "none"
          THEN /\ now' = now + 1
               /\ failures' = request_once_success(failures, now').failures
               /\ last_success' = request_once_success(failures, now').last_success
               /\ result' = [kind |-> "return", data |-> r.data]
               /\ cpc' = "idle"
          ELSE /\ AttemptRaises(r)
               /\ UNCHANGED <<last_success, now>>
    /\ UNCHANGED <<svars, xvars, cfg, csock, locals, sent, slept, nuuid, nreq>>

\* poll() returns 0 after timeout_ms: "raise asyncio.TimeoutError()"
RequestOnceTimeout ==
    /\ cpc = "polling"
    /\ cinbox = <<>>
    /\ AttemptRaises([raised |-> "asyncio.TimeoutError"])
    /\ UNCHANGED <<svars, xvars, cfg, csock, cinbox, last_success, locals, sent, slept, got,
                   now, nuuid, nreq>>

\* "await asyncio.sleep(retry_delay)" and the doubling of retry_delay
Sleep ==
    /\ cpc = "sleeping"
    /\ slept' = Append(slept, locals.retry_delay)
    /\ locals' = [locals EXCEPT !.retry_delay = next_retry_delay(@, cfg)]
    /\ cpc' = "reconnecting"
    /\ UNCHANGED <<svars, xvars, cfg, csock, cinbox, failures, last_success, sent, got,
                   result, now, nuuid, nreq>>

\* "await self._reconnect()" and the step of the loop to its next iteration;
\* what was queued on the closed socket is gone
Reconnect ==
    /\ cpc = "reconnecting"
    /\ csock' = reconnect(csock, cfg)
    /\ cinbox' = IF csock' = csock THEN cinbox ELSE <<>>
    /\ locals' = [locals EXCEPT !.attempt = @ + 1]
    /\ IF locals'.attempt < attempts(cfg)
       THEN cpc' = "attempt" /\ result' = result
       ELSE cpc' = "idle" /\ result' = LoopEnds(locals.timeout)
    /\ UNCHANGED <<svars, xvars, cfg, failures, last_success, sent, slept, got, now, nuuid,
                   nreq>>

\* the peer sends a reply, whenever it likes: with the request id of the
\* client's latest attempt (nuuid) or with another one (0)
PeerReply(n, kind) ==
    /\ csock # NoSocket
    /\ Len(cinbox) < ReplyCap
    /\ cinbox' = Append(cinbox, ReplyParts(n, kind))
    /\ UNCHANGED <<svars, xvars, cfg, cpc, csock, failures, last_success, locals, sent, slept,
                   got, result, now, nuuid, nreq>>

ClientNext ==
    \/ Connect
    \/ RequestNotConnected
    \/ \E timeout_ms \in TimeoutArgs : Request(timeout_ms)
    \/ RequestOnceSend
    \/ RequestOnceRecv
    \/ RequestOnceTimeout
    \/ Sleep
    \/ Reconnect
    \/ \E n \in {0, nuuid}, kind \in ReplyKinds : PeerReply(n, kind)

ClientSpec == ClientInit /\ [][ClientNext]_vars

\* close() between two calls: the socket is closed and self.socket is None,
\* the context is terminated; what the socket had queued is gone.  The
\* counters stay, and connect() may be called again.
Close ==
    /\ cpc = "idle"
    /\ csock' = NoSocket
    /\ cinbox' = <<>>
    /\ cpc' = "new"
    /\ UNCHANGED <<svars, xvars, cfg, failures, last_success, locals, sent, slept, got,
                   result, now, nuuid, nreq>>

ClosingNext ==
    \/ ClientNext
    \/ Close

\* the client with a caller that may close it
ClosingSpec == ClientInit /\ [][ClosingNext]_vars

(***************************************************************************)
(* client.py: two tasks that share one HootClient.  request() holds no     *)
(* lock and keeps its state in locals, so a second task may call it while  *)
(* the first is suspended in poll().  The configurations have              *)
(* max_retries = 0: each request() is one _request_once.                   *)
(***************************************************************************)
SingleAttemptConfigs == {config \in Configs : config.max_retries = 0}

SharedInit ==
    ServiceCreated /\ Unused /\ \E config \in SingleAttemptConfigs : ClientCreated(config)

\* the second task calls request(): the socket is set, the loop is entered
\* and _request_once sends its frame with a new uuid4
OtherRequest(timeout_ms) ==
    /\ other.pc = "none"
    /\ csock # NoSocket
    /\ nuuid' = nuuid + 1
    /\ other' = [pc |-> "polling",
                 timeout |-> TimeoutOr(timeout_ms, cfg.timeout_ms),
                 request_id |-> Uuid(nuuid + 1)]
    /\ UNCHANGED <<svars, arg, ret, wire, runner, cfg, cpc, csock, cinbox, failures, last_success,
                   locals, sent, slept, got, result, now, nreq>>

\* the second task's poll() reports a reply and its recv_multipart() returns
\* the oldest one
OtherRecv ==
    /\ other.pc = "polling"
    /\ cinbox # <<>>
    /\ cinbox' = Tail(cinbox)
    /\ \E r \in {request_once_recv(Head(cinbox), other.request_id, cfg.name)} :
          /\ other' = [pc |-> "done", request_id |-> other.request_id,
                       got |-> Head(cinbox), result |-> Outcome(r)]
          /\ IF r.raised = "none"
             THEN /\ now' = now + 1
                  /\ failures' = request_once_success(failures, now').failures
                  /\ last_success' = request_once_success(failures, now').last_success
             ELSE UNCHANGED <<failures, last_success, now>>
    /\ UNCHANGED <<svars, arg, ret, wire, runner, cfg, cpc, csock, locals, sent, slept, got, result,
                   nuuid, nreq>>

\* the second task's poll() returns 0: the timeout is counted, and with
\* max_retries = 0 request() raises TimeoutError
OtherTimeout ==
    /\ other.pc = "polling"
    /\ cinbox = <<>>
    /\ cfg.max_retries = 0
    /\ failures' = failures + 1
    /\ other' = [pc |-> "done", request_id |-> other.request_id, got |-> <<>>,
                 result |-> [kind |-> "TimeoutError",
                             exc |-> TimeoutError(
                                         Msg("Request to  timed out after  attempts",
                                             <<cfg.name, cfg.max_retries + 1>>),
                                         other.timeout)]]
    /\ UNCHANGED <<svars, arg, ret, wire, runner, cfg, cpc, csock, cinbox, last_success, locals,
                   sent, slept, got, result, now, nuuid, nreq>>

\* both tasks call request(tool_name, params), without a timeout_ms
SharedNext ==
    \/ Connect
    \/ \E timeout_ms \in {PyNone} : Request(timeout_ms)
    \/ RequestOnceSend
    \/ RequestOnceRecv
    \/ RequestOnceTimeout
    \/ \E timeout_ms \in {PyNone} : OtherRequest(timeout_ms)
    \/ OtherRecv
    \/ OtherTimeout
    \/ \E n \in {0, nuuid}, kind \in ReplyKinds : PeerReply(n, kind)

SharedSpec == SharedInit /\ [][SharedNext]_vars

(***************************************************************************)
(* A HootClient connected to a ModelService that declares TOOLS = {"echo"} *)
(* and whose handle_request returns {"value": params["value"]}.  The       *)
(* client makes one attempt per request(); the ROUTER socket is bound      *)
(* before the first request(), and what one side sends reaches the other   *)
(* before either takes its next step.                                      *)
(***************************************************************************)
\* the mapping {"value": 7}
OtherParams == [k \in {value} |-> PyInt(7)]
\* the params the caller passes to request()
ParamsArgs == {EchoParams, OtherParams}

\* handle_request(tool_name, params) of the echo service
echo_handle_request(tool_name, params) == [k \in {value} |-> params[value]]

EchoInit ==
    /\ ServiceCreated
    /\ Unused
    /\ \E config \in SingleAttemptConfigs : ClientCreated(config)

\* send_multipart of _request_once: the DEALER socket hands the frames to the
\* ROUTER socket, which prepends the identity of the connection
Untransmitted == wire.up < nuuid
Transmit ==
    /\ Untransmitted
    /\ wire' = [wire EXCEPT !.up = nuuid]
    /\ inbox' = Append(inbox, <<IdentityOf(csock.gen)>> \o sent[Len(sent)].frames)
    /\ UNCHANGED <<cvars, other, arg, ret, runner, lpc, running, sock, ctx, busy, nsent, tasks, out>>

\* send_multipart of _send_frame: the ROUTER socket strips the identity and
\* hands the rest to the DEALER socket of that connection
Undelivered == out.calls # <<>>
Deliver ==
    /\ Undelivered
    /\ \E c \in {out.calls[Len(out.calls)]} :
          /\ c.ok
          /\ cinbox' = Append(cinbox, SubSeq(c.frames, Len(out.parsed.identity.parts) + 1,
                                            Len(c.frames)))
    /\ wire' = IF out.outcome.kind = "return"
               THEN [wire EXCEPT !.handled =
                        Append(@, [request_id |-> out.parsed.frame.request_id,
                                   params |-> decode_tool_request(out.parsed.frame.body).data,
                                   response |-> out.outcome.response])]
               ELSE wire
    /\ out' = NoOut
    /\ UNCHANGED <<other, arg, ret, runner, lpc, running, sock, ctx, busy, inbox, nsent, tasks,
                   cfg, cpc, csock, failures, last_success, locals, sent, slept, got,
                   result, now, nuuid, nreq>>

\* nothing is on its way between the two sockets
Quiet == ~Untransmitted /\ ~Undelivered

EchoNext ==
    \/ Transmit
    \/ Deliver
    \/ Quiet /\ Start
    \/ Quiet /\ LoadModel(TRUE)
    \/ Quiet /\ LoopPoll
    \/ Quiet /\ PollTimeout
    \/ Quiet /\ RecvRequest
    \/ Quiet /\ \E t \in tasks : TaskReject(t, TRUE)
    \/ Quiet /\ \E t \in tasks : TaskAdmit(t)
    \/ Quiet /\ \E t \in tasks :
                    HandlerReturn(t, echo_handle_request(t.tool, t.params), TRUE, TRUE)
    \/ Quiet /\ Connect
    \/ Quiet /\ sock = "open" /\ \E params \in ParamsArgs : RequestWith(PyNone, params)
    \/ Quiet /\ RequestOnceSend
    \/ Quiet /\ RequestOnceRecv
    \/ Quiet /\ RequestOnceTimeout

EchoSpec == EchoInit /\ [][EchoNext]_vars

(***************************************************************************)
(* The same two programs with a client that retries.  _reconnect gives the *)
(* client a new DEALER socket, which the ROUTER socket knows by a new      *)
(* identity: a reply to an attempt sent on a closed socket is not routable *)
(* and its send_multipart raises.                                          *)
(***************************************************************************)
RetryConfigs == {config \in Configs : config.max_retries > 0}

RetryInit ==
    /\ ServiceCreated
    /\ Unused
    /\ \E config \in RetryConfigs : ClientCreated(config)

\* the socket the task's request came from is still connected
Routable(t) == t.identity = Ident(<<IdentityOf(csock.gen)>>)

\* send_multipart of _send_frame raised: nothing leaves the ROUTER socket
Undeliverable ==
    /\ Undelivered
    /\ ~out.calls[Len(out.calls)].ok
    /\ wire' = IF out.outcome.kind = "return"
               THEN [wire EXCEPT !.handled =
                        Append(@, [request_id |-> out.parsed.frame.request_id,
                                   params |-> decode_tool_request(out.parsed.frame.body).data,
                                   response |-> out.outcome.response])]
               ELSE wire
    /\ out' = NoOut
    /\ UNCHANGED <<cvars, other, arg, ret, runner, lpc, running, sock, ctx, busy, inbox,
                   nsent, tasks>>

RetryNext ==
    \/ Transmit
    \/ Deliver
    \/ Undeliverable
    \/ Quiet /\ Start
    \/ Quiet /\ LoadModel(TRUE)
    \/ Quiet /\ LoopPoll
    \/ Quiet /\ PollTimeout
    \/ Quiet /\ RecvRequest
    \/ Quiet /\ \E t \in tasks : TaskReject(t, Routable(t))
    \/ Quiet /\ \E t \in tasks : TaskAdmit(t)
    \/ Quiet /\ \E t \in tasks :
                    HandlerReturn(t, echo_handle_request(t.tool, t.params), TRUE, Routable(t))
    \/ Quiet /\ Connect
    \/ Quiet /\ sock = "open" /\ \E params \in ParamsArgs : RequestWith(PyNone, params)
    \/ Quiet /\ RequestOnceSend
    \/ Quiet /\ RequestOnceRecv
    \/ Quiet /\ RequestOnceTimeout
    \/ Quiet /\ Sleep
    \/ Quiet /\ csock.gen < NumPeers /\ Reconnect

RetrySpec == RetryInit /\ [][RetryNext]_vars

(***************************************************************************)
(* The codecs taken by themselves: a function of frame.py, protocol.py or  *)
(* errors.py is applied to a value, and another to what it returned.       *)
(***************************************************************************)
\* number of identity parts a ROUTER-capable transport puts before a message
MaxIdentity == 2

\* the service names and traceparents of the frames: empty, ASCII, and a
\* string with a two-byte code point
ServiceArgs == {<<>>, <<104, 233>>}
TraceArgs == {<<>>, <<48, 48, 45>>}
BodyArgs == {Raw(<<>>), Raw(<<1, 2>>)}

\* the valid frames: every command with every content type
FrameArgs ==
    {HootFrame(command, content_type, Uuid(1), service, traceparent, body, None) :
        command \in Command, content_type \in ContentType, service \in ServiceArgs,
        traceparent \in TraceArgs, body \in BodyArgs}

\* the parts a transport may use as identity: a connection id, the empty
\* delimiter, and bytes that happen to spell the marker
IdentityParts == {IdentityOf(1), Raw(<<>>), PROTOCOL_VERSION}
IdentityArgs ==
    UNION {[1..n -> IdentityParts] : n \in 0..MaxIdentity}

\* a frame to serialise, and the identity parts to send before it
FrameInputs ==
    {[kind |-> "frame", frame |-> frame, identity |-> identity] :
        frame \in FrameArgs, identity \in IdentityArgs}

\* frame.to_frames()
ToFrames ==
    /\ arg.kind = "frame"
    /\ arg.identity = <<>>
    /\ ret = NoRet
    /\ ret' = [done |-> <<"to_frames">>, frames |-> to_frames(arg.frame)]
    /\ UNCHANGED <<svars, cvars, other, wire, runner, arg>>

\* HootFrame.from_frames(frames)
FromFrames ==
    /\ ret.done = <<"to_frames">>
    /\ ret' = [done |-> <<"to_frames", "from_frames">>,
               frames |-> ret.frames,
               parsed |-> from_frames(ret.frames)]
    /\ UNCHANGED <<svars, cvars, other, wire, runner, arg>>

\* the frame with its identity set, and frame.to_frames_with_identity()
ToFramesWithIdentity ==
    /\ arg.kind = "frame"
    /\ ret = NoRet
    /\ ret' = [done |-> <<"to_frames_with_identity">>,
               frames |-> to_frames_with_identity(
                              [arg.frame EXCEPT !.identity = Ident(arg.identity)])]
    /\ UNCHANGED <<svars, cvars, other, wire, runner, arg>>

\* HootFrame.from_frames_with_identity(frames)
FromFramesWithIdentity ==
    /\ ret.done = <<"to_frames_with_identity">>
    /\ ret' = [done |-> <<"to_frames_with_identity", "from_frames_with_identity">>,
               frames |-> ret.frames,
               parsed |-> from_frames_with_identity(ret.frames)]
    /\ UNCHANGED <<svars, cvars, other, wire, runner, arg>>

\* the parts a peer of another implementation may send: each part of a
\* well-formed message replaced by something else, the message cut short,
\* or a part added
MarkerParts == {PROTOCOL_VERSION, Raw(<<72, 79, 79, 84, 48, 50>>)}
CommandParts ==
    {PackH(0), PackH(READY), PackH(DISCONNECT), PackH(6), PackH(257),
     Raw(<<1>>), Raw(<<0, 1, 9>>)}
ContentTypeParts == {PackH(EMPTY), PackH(JSON), PackH(4), Raw(<<0>>)}
RequestIdParts ==
    {Raw(SubSeq(Uuid(1), 1, 15)), Raw(Uuid(1)), Raw(Uuid(1) \o <<9>>)}
TextParts == {Utf8Encode(ServiceName), Raw(<<255>>)}
PartCounts == {0, 1, 6, 7, 8}
PartsArgs ==
    {SubSeq(<<m, c, t, i, sv, tr, Raw(<<1, 2>>), Raw(<<>>)>>, 1, n) :
        m \in MarkerParts, c \in CommandParts, t \in ContentTypeParts,
        i \in RequestIdParts, sv \in TextParts, tr \in TextParts, n \in PartCounts}
PartsInputs == {[kind |-> "parts", parts |-> parts] : parts \in PartsArgs}

\* HootFrame.from_frames_with_identity(frames) on parts as received
ParseParts ==
    /\ arg.kind = "parts"
    /\ ret = NoRet
    /\ ret' = [done |-> <<"from_frames_with_identity">>,
               frames |-> arg.parts,
               parsed |-> from_frames_with_identity(arg.parts)]
    /\ UNCHANGED <<svars, cvars, other, wire, runner, arg>>

\* hooteproto/tools.py: two of the tools the schema has a variant for
cas_get == <<"c", "a", "s", "_", "g", "e", "t">>
cas_upload_file == <<"c", "a", "s", "_", "u", "p", "l", "o", "a", "d", "_", "f", "i", "l", "e">>
ToolNames == {cas_get, cas_upload_file}
\* the response names of these tools, as _send_response forms them
ResponseNames == {t \o <<"_", "r", "e", "s", "p", "o", "n", "s", "e">> : t \in ToolNames}

\* tool_request.init(name) and tool_response.init(name) raise when the
\* schema has no variant of that name
ToolVariants == {to_camel_case(t) : t \in ToolNames}
ResponseVariants == {to_camel_case(t) : t \in ResponseNames}

\* the spellings a caller may pass for a name: the name itself, its camelCase
\* form, the name followed by an underscore, with its underscores doubled,
\* in upper case, and a name the schema does not know
Doubled(name) ==
    Flatten([i \in 1..Len(name) |-> IF name[i] = "_" THEN <<"_", "_">> ELSE <<name[i]>>])
Spellings(name) ==
    {name, to_camel_case(name), name \o <<"_">>, Doubled(name),
     [i \in 1..Len(name) |-> ToUpper(name[i])], nope}
NameInputs ==
    {[kind |-> "name", role |-> "tool", name |-> n] :
        n \in UNION {Spellings(t) : t \in ToolNames}}
    \cup {[kind |-> "name", role |-> "response", name |-> n] :
              n \in UNION {Spellings(t) : t \in ResponseNames}}

\* encode_tool_request(request_id_bytes, tool_name, params): ok = FALSE
\* stands for the ValueError raised when init() fails
EncodeToolRequest ==
    /\ arg.kind = "name"
    /\ arg.role = "tool"
    /\ ret = NoRet
    /\ ret' = IF to_camel_case(arg.name) \in ToolVariants
              THEN [done |-> <<"encode_tool_request">>, ok |-> TRUE,
                    body |-> encode_tool_request(Uuid(1), arg.name, EchoParams)]
              ELSE [done |-> <<"encode_tool_request">>, ok |-> FALSE]
    /\ UNCHANGED <<svars, cvars, other, wire, runner, arg>>

\* encode_tool_response(request_id_bytes, response_type, response_data)
EncodeToolResponse ==
    /\ arg.kind = "name"
    /\ arg.role = "response"
    /\ ret = NoRet
    /\ ret' = IF to_camel_case(arg.name) \in ResponseVariants
              THEN [done |-> <<"encode_tool_response">>, ok |-> TRUE,
                    body |-> encode_tool_response(Uuid(1), arg.name, EchoParams)]
              ELSE [done |-> <<"encode_tool_response">>, ok |-> FALSE]
    /\ UNCHANGED <<svars, cvars, other, wire, runner, arg>>

\* decode_envelope(body) of what an encoder returned
DecodeEnvelope ==
    /\ Len(ret.done) = 1
    /\ ret.done[1] \in {"encode_tool_request", "encode_tool_response",
                        "encode_error_response"}
    /\ ret.ok
    /\ ret' = [done |-> Append(ret.done, "decode_envelope"), ok |-> TRUE,
               body |-> ret.body, decoded |-> decode_envelope(ret.body)]
    /\ UNCHANGED <<svars, cvars, other, wire, runner, arg>>

\* the codes and messages of error replies
ErrorCodes == {"not_found", "service_busy", ""}
ErrorMessages == {Msg("X not found", <<>>), Msg("Unknown tool: ", nope), Msg("", <<>>)}
ErrorInputs ==
    {[kind |-> "error", request_id |-> Uuid(n), code |-> code, message |-> message] :
        n \in 0..1, code \in ErrorCodes, message \in ErrorMessages}

\* encode_error_response(request_id_bytes, code, message)
EncodeErrorResponse ==
    /\ arg.kind = "error"
    /\ ret = NoRet
    /\ ret' = [done |-> <<"encode_error_response">>, ok |-> TRUE,
               body |-> encode_error_response(arg.request_id, arg.code, arg.message)]
    /\ UNCHANGED <<svars, cvars, other, wire, runner, arg>>

(***************************************************************************)
(* errors.py: ToolError and its subclasses.  An instance is                *)
(*   [cls, category, message, details, fields]                             *)
(* where fields holds the fields the subclass adds; None and "" are both   *)
(* written "", None and 0 both 0, as only their truth value is read.       *)
(***************************************************************************)
NoDetails == [k \in {} |-> ""]
\* self.details[k] = v
SetItem(details, k, v) ==
    [x \in DOMAIN details \cup {k} |-> IF x = k THEN v ELSE details[x]]
\* "if v: self.details[k] = v"
SetIfTruthy(details, k, v) == IF v = "" THEN details ELSE SetItem(details, k, v)
\* the same for an integer or None
SetIfNonZero(details, k, v) == IF v = 0 THEN details ELSE SetItem(details, k, v)

\* the defaults of the fields each class adds
Defaults(cls) ==
    CASE cls = "ValidationError" -> [field_name |-> "", code |-> "invalid_input"]
      [] cls = "NotFoundError" -> [resource_type |-> "", resource_id |-> ""]
      [] cls = "ServiceError" -> [service_name |-> "", code |-> "", retryable |-> FALSE]
      [] cls = "CancelledError" -> [job_id |-> ""]
      [] cls = "TimeoutError" -> [timeout_ms |-> 0]
      [] cls = "PermissionError" -> [resource |-> "", action |-> ""]
      [] OTHER -> [none |-> TRUE]

\* __post_init__ of each class: the details after it ran
post_init(cls, details, fields) ==
    CASE cls = "ValidationError" ->
            LET d == SetIfTruthy(details, "field", fields.field_name)
            IN  IF fields.code # "invalid_input" THEN SetItem(d, "code", fields.code) ELSE d
      [] cls = "NotFoundError" ->
            SetIfTruthy(SetIfTruthy(details, "resource_type", fields.resource_type),
                        "resource_id", fields.resource_id)
      [] cls = "ServiceError" ->
            SetItem(SetIfTruthy(SetIfTruthy(details, "service", fields.service_name),
                                "code", fields.code),
                    "retryable", fields.retryable)
      [] cls = "CancelledError" -> SetIfTruthy(details, "job_id", fields.job_id)
      [] cls = "TimeoutError" -> SetIfNonZero(details, "timeout_ms", fields.timeout_ms)
      [] cls = "PermissionError" ->
            SetIfTruthy(SetIfTruthy(details, "resource", fields.resource),
                        "action", fields.action)
      [] OTHER -> details

\* cls(category=..., message=..., details=..., **fields)
NewError(cls, category, message, details, fields) ==
    [cls |-> cls, category |-> category, message |-> message,
     details |-> post_init(cls, details, fields), fields |-> fields]

\* the dataclass default of category in each class
CategoryOf(cls) ==
    CASE cls = "ValidationError" -> "validation"
      [] cls = "NotFoundError" -> "not_found"
      [] cls = "ServiceError" -> "service"
      [] cls = "CancelledError" -> "cancelled"
      [] cls = "TimeoutError" -> "timeout"
      [] cls = "PermissionError" -> "permission"
      [] OTHER -> "internal"

\* error_classes.get(category, ToolError) of from_dict
error_classes(category) ==
    CASE category = "validation" -> "ValidationError"
      [] category = "not_found" -> "NotFoundError"
      [] category = "service" -> "ServiceError"
      [] category = "internal" -> "InternalError"
      [] category = "cancelled" -> "CancelledError"
      [] category = "timeout" -> "TimeoutError"
      [] category = "permission" -> "PermissionError"
      [] OTHER -> "ToolError"

\* ToolError.to_dict
to_dict(e) ==
    IF DOMAIN e.details # {}
    THEN [category |-> e.category, message |-> e.message, details |-> e.details]
    ELSE [category |-> e.category, message |-> e.message]

\* ToolError.from_dict
from_dict(data) ==
    LET category == IF "category" \in DOMAIN data THEN data.category ELSE "internal"
        message == IF "message" \in DOMAIN data THEN data.message ELSE "Unknown error"
        details == IF "details" \in DOMAIN data THEN data.details ELSE NoDetails
        error_cls == error_classes(category)
    IN  NewError(error_cls, category, message, details, Defaults(error_cls))

\* the errors a program may build: the base class with each category, and
\* each subclass with its fields set and unset
MessageArgs == {"", "boom"}
FieldArgs(cls) ==
    CASE cls = "ValidationError" ->
            {[field_name |-> f, code |-> c] : f \in {"", "x"}, c \in {"invalid_input", "bad"}}
      [] cls = "NotFoundError" ->
            {[resource_type |-> t, resource_id |-> i] : t \in {"", "job"}, i \in {"", "7"}}
      [] cls = "ServiceError" ->
            {[service_name |-> n, code |-> c, retryable |-> r] :
                n \in {"", "svc"}, c \in {"", "service_busy"}, r \in BOOLEAN}
      [] cls = "CancelledError" -> {[job_id |-> j] : j \in {"", "j1"}}
      [] cls = "TimeoutError" -> {[timeout_ms |-> t] : t \in {0, 5000}}
      [] cls = "PermissionError" ->
            {[resource |-> r, action |-> a] : r \in {"", "cas"}, a \in {"", "write"}}
      [] OTHER -> {Defaults(cls)}
Subclasses ==
    {"ValidationError", "NotFoundError", "ServiceError", "InternalError",
     "CancelledError", "TimeoutError", "PermissionError"}
ToolErrorArgs ==
    {NewError("ToolError", category, message, details, Defaults("ToolError")) :
        category \in ErrorCategory, message \in MessageArgs,
        details \in {NoDetails, SetItem(NoDetails, "hint", "retry")}}
    \cup UNION {{NewError(cls, CategoryOf(cls), message, NoDetails, fields) :
                    message \in MessageArgs, fields \in FieldArgs(cls)} :
                cls \in Subclasses}
ToolErrorInputs == {[kind |-> "tool_error", exc |-> e] : e \in ToolErrorArgs}

\* e.to_dict()
ToDict ==
    /\ arg.kind = "tool_error"
    /\ ret = NoRet
    /\ ret' = [done |-> <<"to_dict">>, data |-> to_dict(arg.exc)]
    /\ UNCHANGED <<svars, cvars, other, wire, runner, arg>>

\* ToolError.from_dict(data)
FromDict ==
    /\ ret.done = <<"to_dict">>
    /\ ret' = [done |-> <<"to_dict", "from_dict">>, data |-> ret.data,
               exc |-> from_dict(ret.data)]
    /\ UNCHANGED <<svars, cvars, other, wire, runner, arg>>

CodecInputs ==
    FrameInputs \cup PartsInputs \cup NameInputs \cup ErrorInputs \cup ToolErrorInputs

CodecInit ==
    /\ ServiceCreated
    /\ ClientCreated(DefaultConfig)
    /\ other = NoOther
    /\ wire = NoWire
    /\ ret = NoRet
    /\ runner = HeadlessRunner
    /\ arg \in CodecInputs

CodecNext ==
    \/ ToFrames
    \/ FromFrames
    \/ ToFramesWithIdentity
    \/ FromFramesWithIdentity
    \/ ParseParts
    \/ EncodeToolRequest
    \/ EncodeToolResponse
    \/ EncodeErrorResponse
    \/ DecodeEnvelope
    \/ ToDict
    \/ FromDict

CodecSpec == CodecInit /\ [][CodecNext]_vars

(***************************************************************************)
(* headless.py: HeadlessRunner, which runs one tool of a service from the  *)
(* command line. Its callers are asyncio tasks: a task gives way only at   *)
(* an await, so initialize() is two steps around "await load_model()".     *)
(***************************************************************************)
MaxInitialize == 3
MaxRuns == 2
MaxParams == 2

\* a string held in a mapping
PyStr(s) == [str |-> s]

DEFAULT_FILE_PARAM_MAPPING ==
    [input_file |-> "midi_hash",
     midi_file |-> "midi_hash",
     audio_file |-> "audio_hash",
     section_a_file |-> "section_a_hash",
     seed_file |-> "seed_hash"]
\* self.file_param_mapping.values()
HashKeys == {DEFAULT_FILE_PARAM_MAPPING[k] : k \in DOMAIN DEFAULT_FILE_PARAM_MAPPING}

\* the files that exist, and what they hold
Files == ("a.mid" :> "midi a") @@ ("b.mid" :> "midi b")
\* cas.hash_bytes(data): the digest names the content
hash_bytes(data) == "blake3 of " \o data
\* cas.store(data, cas_dir) -> content hash; the store holds it afterwards
store(data, cas) == [hash |-> hash_bytes(data), cas |-> cas \cup {hash_bytes(data)}]
\* cas.fetch(content_hash, cas_dir) is None
NotFetched(content_hash, cas) == content_hash \notin cas

\* HeadlessRunner._store_file_to_cas(file_path): FileNotFoundError for a
\* file that does not exist
FileExists(path) == "str" \in DOMAIN path /\ path.str \in DOMAIN Files
store_file_to_cas(path, cas) == store(Files[path.str], cas)

\* a params mapping is a dict: its items in insertion order, keys distinct
NoParams == [k \in {} |-> PyNone]
RECURSIVE convert_from(_, _, _, _)
convert_from(params, i, converted, cas) ==
    IF i > Len(params)
    THEN [raised |-> FALSE, path |-> "", converted |-> converted, cas |-> cas]
    ELSE LET key == params[i].key
             val == params[i].value
         IN  IF key \in DOMAIN DEFAULT_FILE_PARAM_MAPPING /\ val # PyNone
             THEN IF ~FileExists(val)
                  THEN [raised |-> TRUE, path |-> val.str, converted |-> converted,
                        cas |-> cas]
                  ELSE LET stored == store_file_to_cas(val, cas)
                       IN  convert_from(params, i + 1,
                                        SetItem(converted,
                                                DEFAULT_FILE_PARAM_MAPPING[key],
                                                PyStr(stored.hash)),
                                        stored.cas)
             ELSE IF key \notin HashKeys \/ key \notin DOMAIN converted
                  THEN convert_from(params, i + 1, SetItem(converted, key, val), cas)
                  ELSE convert_from(params, i + 1, converted, cas)
\* HeadlessRunner._convert_file_params(params), with the byte store it
\* leaves behind
convert_file_params(params, cas) == convert_from(params, 1, NoParams, cas)

\* the service of tests/test_headless.py: handle_request(tool_name, params)
mock_generate == "mock_generate"
mock_process == "mock_process"
MockContent == "mock generated content"
mock_handle_request(tool_name, params, cas) ==
    IF tool_name = mock_generate
    THEN [response |-> "content_hash" :> PyStr(store(MockContent, cas).hash),
          cas |-> store(MockContent, cas).cas]
    ELSE [response |-> "input_hash" :> (IF "midi_hash" \in DOMAIN params
                                        THEN params["midi_hash"] ELSE PyNone),
          cas |-> cas]

\* what the callers pass
HeadlessTools == {mock_generate, mock_process}
FileValues == {PyStr("a.mid"), PyStr("b.mid"), PyStr("missing.mid"), PyNone}
ParamItems ==
    {[key |-> k, value |-> v] : k \in {"input_file", "midi_file"}, v \in FileValues}
        \cup {[key |-> "midi_hash", value |-> PyStr("abc")],
              [key |-> "temperature", value |-> PyInt(8)]}
DistinctKeys(params) ==
    \A i, j \in 1..Len(params) : params[i].key = params[j].key => i = j
ParamsArgsHeadless ==
    {p \in UNION {[1..n -> ParamItems] : n \in 0..MaxParams} : DistinctKeys(p)}
OutputFiles == {PyNone, PyStr("out.mid")}

\* initialize() of an initialized runner returns at once
InitializeReturns(t) ==
    /\ runner.pc[t] = "idle"
    /\ runner.ninit < MaxInitialize
    /\ runner.initialized
    /\ runner' = [runner EXCEPT !.ninit = @ + 1, !.done = @ + 1]
    /\ UNCHANGED <<svars, cvars, other, arg, ret, wire>>

\* initialize() of a runner that is not: self.service = service_class(...),
\* then load_model() is called and awaited
InitializeBegin(t) ==
    /\ runner.pc[t] = "idle"
    /\ runner.ninit < MaxInitialize
    /\ ~runner.initialized
    /\ runner' = [runner EXCEPT !.ninit = @ + 1,
                                !.created = @ + 1,
                                !.service = runner.created + 1,
                                !.loads = @ + 1,
                                !.pc[t] = "loading"]
    /\ UNCHANGED <<svars, cvars, other, arg, ret, wire>>

\* load_model() returns: self._initialized = True
LoadModelReturns(t) ==
    /\ runner.pc[t] = "loading"
    /\ runner' = [runner EXCEPT !.initialized = TRUE, !.done = @ + 1, !.pc[t] = "idle"]
    /\ UNCHANGED <<svars, cvars, other, arg, ret, wire>>

\* load_model() raises, and so does initialize()
LoadModelRaises(t) ==
    /\ runner.pc[t] = "loading"
    /\ runner' = [runner EXCEPT !.pc[t] = "idle"]
    /\ UNCHANGED <<svars, cvars, other, arg, ret, wire>>

\* a run_tool() that does not look at self._initialized
RunToolUnchecked(tool_name, params, output_file) ==
    /\ runner.nrun < MaxRuns
    /\ ~runner.initialized \/ runner.service = 0
    /\ runner' = [runner EXCEPT !.nrun = @ + 1,
                                !.handled = @ + 1,
                                !.result = [kind |-> "return",
                                            response |-> NoParams,
                                            written |-> FALSE]]
    /\ UNCHANGED <<svars, cvars, other, arg, ret, wire>>

\* run_tool() of a runner that is not initialized
RunToolNotInitialized(tool_name, params, output_file) ==
    /\ runner.nrun < MaxRuns
    /\ ~runner.initialized \/ runner.service = 0
    /\ runner' = [runner EXCEPT !.nrun = @ + 1,
                                !.result = [kind |-> "RuntimeError"]]
    /\ UNCHANGED <<svars, cvars, other, arg, ret, wire>>

\* run_tool() of an initialized runner: the file parameters are stored and
\* replaced, the service handles the request, the output file is written
RunTool(tool_name, params, output_file) ==
    /\ runner.nrun < MaxRuns
    /\ runner.initialized /\ runner.service # 0
    /\ \E c \in {convert_file_params(params, runner.cas)} :
          IF c.raised
          THEN runner' = [runner EXCEPT !.nrun = @ + 1,
                                        !.cas = c.cas,
                                        !.result = [kind |-> "FileNotFoundError",
                                                    path |-> c.path]]
          ELSE \E h \in {mock_handle_request(tool_name, c.converted, c.cas)} :
                  runner' = [runner EXCEPT
                      !.nrun = @ + 1,
                      !.handled = @ + 1,
                      !.last_request = [kind |-> "request",
                                        tool_name |-> tool_name,
                                        given |-> params,
                                        params |-> c.converted],
                      !.cas = h.cas,
                      !.result =
                          IF /\ output_file # PyNone
                             /\ "content_hash" \in DOMAIN h.response
                             /\ NotFetched(h.response["content_hash"].str, h.cas)
                          THEN [kind |-> "ValueError"]
                          ELSE [kind |-> "return",
                                response |-> h.response,
                                written |-> /\ output_file # PyNone
                                            /\ "content_hash" \in DOMAIN h.response]]
    /\ UNCHANGED <<svars, cvars, other, arg, ret, wire>>

HeadlessNext ==
    \/ \E t \in InitTasks :
          \/ InitializeReturns(t)
          \/ InitializeBegin(t)
          \/ LoadModelReturns(t)
          \/ LoadModelRaises(t)
    \/ \E tool_name \in HeadlessTools, params \in ParamsArgsHeadless,
          output_file \in OutputFiles :
          \/ RunToolNotInitialized(tool_name, params, output_file)
          \/ RunTool(tool_name, params, output_file)

HeadlessSpec == Init /\ [][HeadlessNext]_vars

(***************************************************************************)
(* Observations the properties are stated with                             *)
(***************************************************************************)
\* the tasks whose handle_request invocation is in flight
InHandler == {t \in tasks : t.pc = "handler"}

\* the last step finished with a message; Done is what
\* from_frames_with_identity made of it
Finished == out.frames # <<>>
Done == out.parsed
FinishedRequest == Finished /\ Done.ok /\ Done.frame.command = REQUEST
\* the request was turned away: handle_request was not invoked for it
Rejected == FinishedRequest /\ out.outcome.kind = "none"

\* the call sent a REPLY to the sender of msg, with msg's request id, whose
\* envelope is an error
IsErrorReply(call, msg) ==
    LET r == from_frames_with_identity(call.frames) IN
    /\ r.ok
    /\ r.frame.command = REPLY
    /\ r.frame.request_id = msg.frame.request_id
    /\ r.identity = msg.identity
    /\ decode_envelope(r.frame.body).ok
    /\ decode_envelope(r.frame.body).type = error
ErrorCode(call) == decode_envelope(from_frames_with_identity(call.frames).frame.body).data.code
ErrorMessage(call) ==
    decode_envelope(from_frames_with_identity(call.frames).frame.body).data.message

\* the call sent a HEARTBEAT to the sender of msg with msg's request id
IsHeartbeatReply(call, msg) ==
    LET r == from_frames_with_identity(call.frames) IN
    /\ r.ok
    /\ r.frame.command = HEARTBEAT
    /\ r.frame.request_id = msg.frame.request_id
    /\ r.identity = msg.identity

\* the checks a request fails, each taken by itself
FailsContentType(f) == f.content_type # CAPNPROTO
FailsDecode(f) == IsRaw(f.body)
FailsTool(f) == ~IsRaw(f.body) /\ decode_envelope(f.body).type \notin TOOLS
\* the code of the earliest check the request fails; "busy" when it fails
\* none of the first three
EarliestFailure(f) ==
    IF FailsContentType(f) THEN "invalid_content_type"
    ELSE IF FailsDecode(f) THEN "decode_error"
    ELSE IF FailsTool(f) THEN "unknown_tool"
    ELSE "busy"

BusyMessage == Msg("Service is busy processing another request", <<>>)

\* the step takes the oldest message off the socket
Receives == inbox # <<>> /\ inbox' = Tail(inbox)
Received == from_frames_with_identity(Head(inbox))

(***************************************************************************)
(* The job guard                                                           *)
(***************************************************************************)
\* C1: at most one invocation of handle_request is in flight at any time,
\* and the job guard is Busy for as long as one is: whatever arrives, and
\* whatever is rejected meanwhile, never frees the guard under it.
C1_OneHandlerAtATime ==
    /\ Cardinality(InHandler) <= 1
    /\ InHandler # {} => busy
    /\ Rejected => out.calls[1].busy = busy

\* a second valid request waits to be dispatched while a handler is in flight
C1_SecondRequestArrives ==
    /\ busy
    /\ \E t \in tasks : t.pc = "handler"
    /\ \E t \in tasks : t.pc = "start" /\ EarliestFailure(t.frame) = "busy"

\* C2: a valid request for a declared tool that arrives while the job guard
\* is held is answered with an error the client observes as category
\* "service", code "service_busy" and retryable = true.
C2_BusyReplyIsServiceBusy ==
    (Rejected /\ EarliestFailure(Done.frame) = "busy" /\ out.calls[1].ok) =>
        LET seen == request_once_reply(Tail(out.calls[1].frames), ServiceName)
        IN  /\ seen.raised = "ServiceError"
            /\ seen.exc.category = "service"
            /\ seen.exc.code = "service_busy"
            /\ seen.exc.retryable = TRUE

\* C3: the job guard is Busy only while an admitted request is in flight;
\* when the request has finished, whether handle_request returned or raised
\* and whether or not the reply could be encoded and sent, the guard is Idle.
C3_GuardReleased ==
    /\ busy => InHandler # {}
    /\ (FinishedRequest /\ out.outcome.kind # "none") =>
          /\ ~busy
          /\ \A i \in 1..Len(out.calls) :
                (~out.calls[i].busy) \/ (i = 1 /\ out.outcome.kind = "return")

\* a handler returned, the reply could not be sent, and the guard is Idle
C3_ReleasedAfterFailedSend ==
    /\ FinishedRequest
    /\ out.outcome.kind = "return"
    /\ out.outcome.encodes
    /\ ~out.calls[1].ok
    /\ Len(out.calls) = 3
    /\ ~busy

(***************************************************************************)
(* Heartbeats                                                              *)
(***************************************************************************)
\* C4: the step of the accept loop that receives a HEARTBEAT makes exactly
\* one send, of a HEARTBEAT frame with the received request id addressed to
\* the sender's identity, and leaves the job guard and the set of request
\* tasks as they were (no handler is invoked).
C4_HeartbeatAnsweredInline ==
    [][(Receives /\ Received.ok /\ Received.frame.command = HEARTBEAT) =>
          /\ out'.frames = Head(inbox)
          /\ Len(out'.calls) = 1
          /\ IsHeartbeatReply(out'.calls[1], Received)
          /\ out'.calls[1].busy = busy
          /\ busy' = busy
          /\ tasks' = tasks
          /\ lpc' = "top"]_vars

\* a heartbeat has been answered and the reply reached its sender
C4_HeartbeatReplied ==
    /\ Finished
    /\ Done.ok
    /\ Done.frame.command = HEARTBEAT
    /\ Len(out.calls) = 1
    /\ out.calls[1].ok
    /\ IsHeartbeatReply(out.calls[1], Done)

\* the HEARTBEAT messages a peer can put on the socket
HeartbeatMessages ==
    {<<IdentityOf(p)>> \o Payload(n, "heartbeat") : p \in Peers, n \in 1..MaxMsgs}

\* C5: a HEARTBEAT that is the next message of the polling loop while a
\* handler invocation is in flight is answered, as the next message the loop
\* takes, whether or not the handler ever completes.
C5_HeartbeatNotStarved ==
    \A m \in HeartbeatMessages :
        (lpc = "polling" /\ inbox # <<>> /\ Head(inbox) = m /\ InHandler # {})
            ~> (out.frames = m /\ Len(out.calls) = 1 /\ IsHeartbeatReply(out.calls[1], Done))

\* a heartbeat has been answered while the handler is still in flight
C5_AnsweredWhileHandling ==
    /\ Finished
    /\ Done.ok
    /\ Done.frame.command = HEARTBEAT
    /\ Len(out.calls) = 1
    /\ out.calls[1].busy
    /\ InHandler # {}
    /\ busy

(***************************************************************************)
(* Request dispatch                                                        *)
(***************************************************************************)
\* C6: a request that is turned away is answered with the code of the
\* earliest check it fails, in the order content type, envelope decode,
\* declared tool, job guard (whose code on the wire is the ServiceError's
\* category); the rejection leaves the guard as it found it, and only a
\* request that passes the first three checks reaches handle_request.
C6_ChecksInOrder ==
    /\ \A t \in InHandler : EarliestFailure(t.frame) = "busy"
    /\ (FinishedRequest /\ out.outcome.kind # "none") =>
          EarliestFailure(Done.frame) = "busy"
    /\ Rejected =>
          /\ IsErrorReply(out.calls[1], Done)
          /\ ErrorCode(out.calls[1]) =
                (IF EarliestFailure(Done.frame) = "busy" THEN "service"
                 ELSE EarliestFailure(Done.frame))
          /\ EarliestFailure(Done.frame) = "busy" => out.calls[1].busy
          /\ out.calls[1].busy = busy

\* a request that fails the content type check and the decode, sent while
\* the guard is held, has been answered with invalid_content_type
C6_SeveralChecksFail ==
    /\ Rejected
    /\ FailsContentType(Done.frame)
    /\ FailsDecode(Done.frame)
    /\ busy
    /\ ErrorCode(out.calls[1]) = "invalid_content_type"

\* C7: every inbound message that fails frame parsing, and every request
\* whose envelope fails to decode, is answered with an error reply and does
\* not reach handle_request.
C7_DecodeFailuresAnswered ==
    (Finished /\ (~Done.ok \/ (Done.frame.command = REQUEST /\ FailsDecode(Done.frame)))) =>
        /\ out.outcome.kind = "none"
        /\ out.calls # <<>>

\* C8: when handle_request raises a ToolError the error reply carries the
\* error's category (as the code) and its message; when it raises another
\* exception the reply carries internal_error and the exception's string.
C8_HandlerErrorsOnTheWire ==
    /\ (FinishedRequest /\ out.outcome.kind = "ToolError") =>
          /\ IsErrorReply(out.calls[1], Done)
          /\ ErrorCode(out.calls[1]) = out.outcome.category
          /\ ErrorMessage(out.calls[1]) = out.outcome.message
    /\ (FinishedRequest /\ out.outcome.kind = "Exception") =>
          /\ IsErrorReply(out.calls[1], Done)
          /\ ErrorCode(out.calls[1]) = "internal_error"
          /\ ErrorMessage(out.calls[1]) = out.outcome.message

\* a ToolError of category "validation" has been reported to its sender
C8_ToolErrorReported ==
    /\ FinishedRequest
    /\ out.outcome.kind = "ToolError"
    /\ out.outcome.category = "validation"
    /\ out.calls[1].ok
    /\ ErrorCode(out.calls[1]) = "validation"

\* C9: nothing but the end of the handler invocation frees the job guard.
\* In every step that leaves the invocation in flight the guard stays Busy,
\* a request that passes the first three checks is answered with the busy
\* error, and a heartbeat that is received is answered.
C9_NoHandlerTimeout ==
    [][(InHandler # {} /\ InHandler' = InHandler) =>
          /\ busy'
          /\ (FinishedRequest' /\ EarliestFailure(Done.frame)' = "busy") =>
                /\ out'.outcome.kind = "none"
                /\ IsErrorReply(out'.calls[1], Done')
                /\ ErrorCode(out'.calls[1]) = "service"
                /\ ErrorMessage(out'.calls[1]) = BusyMessage
          /\ (Receives /\ Received.ok /\ Received.frame.command = HEARTBEAT) =>
                /\ Len(out'.calls) = 1
                /\ IsHeartbeatReply(out'.calls[1], Received)]_vars

\* all the messages of the run were sent after the handler was entered, the
\* last of them a valid request that has been answered with the busy error
\* while the handler is still in flight
C9_BusyWhileWedged ==
    /\ InHandler # {}
    /\ busy
    /\ nsent = MaxMsgs
    /\ Rejected
    /\ EarliestFailure(Done.frame) = "busy"
    /\ out.calls[1].ok
    /\ ErrorMessage(out.calls[1]) = BusyMessage

(***************************************************************************)
(* Other commands                                                          *)
(***************************************************************************)
\* C10: the step that receives a READY, REPLY or DISCONNECT frame sends
\* nothing, leaves the job guard, the running flag and the request tasks as
\* they were, and returns the accept loop to the head of its while loop.
C10_OtherCommandsIgnored ==
    [][(Receives /\ Received.ok /\ Received.frame.command \in {READY, REPLY, DISCONNECT}) =>
          /\ out'.frames = Head(inbox)
          /\ out'.calls = <<>>
          /\ out'.outcome.kind = "none"
          /\ busy' = busy
          /\ running' = running
          /\ tasks' = tasks
          /\ lpc' = "top"]_vars

\* a DISCONNECT was received while a handler is in flight, and the service
\* is still running with the handler still in flight
C10_DisconnectIgnored ==
    /\ Finished
    /\ Done.ok
    /\ Done.frame.command = DISCONNECT
    /\ out.calls = <<>>
    /\ running
    /\ lpc = "top"
    /\ InHandler # {}

(***************************************************************************)
(* Start-up and shutdown                                                   *)
(***************************************************************************)
\* start() has not reached the accept loop
BeforeLoop == {"created", "loading", "load_failed"}
\* the termination signal was delivered and the loop has not yet ended
Signalled == ~running /\ lpc \in {"top", "polling"}
\* the ways handle_request ends by itself
HandlerOutcomes == {"return", "ToolError", "Exception"}

\* C11: no message is received or answered before load_model() has
\* completed: until then the service is not Running, no message leaves the
\* socket, no task exists and nothing is sent.  The endpoint is bound when
\* load_model() is awaited, load_model() is awaited once (only from Created),
\* Running is entered only from a load_model() that returned, and after a
\* load_model() that raised nothing happens in the service any more.
C11_NothingAnsweredBeforeLoad ==
    [][/\ lpc' \in BeforeLoop =>
             ~running' /\ ~Receives /\ tasks' = {} /\ out' = NoOut
       /\ lpc' = "created" => lpc = "created"
       /\ lpc' = "loading" => lpc \in {"created", "loading"} /\ sock' = "open"
       /\ (running' /\ ~running) => lpc = "loading" /\ sock = "open"
       /\ lpc = "load_failed" => lpc' = "load_failed" /\ ~running'
      ]_vars

\* load_model() raised while a heartbeat was waiting on the bound socket
C11_HeartbeatWaitsForFailedLoad ==
    /\ lpc = "load_failed"
    /\ inbox # <<>>
    /\ Received.ok
    /\ Received.frame.command = HEARTBEAT

\* C12: once the termination signal cleared _running the loop starts no new
\* poll, the socket is closed before the context is terminated, nothing is
\* received or answered once the service has stopped and it stays stopped;
\* and a signalled service does stop.
C12_StopsAfterSignal ==
    /\ [][/\ (~running /\ lpc = "top") => lpc' # "polling"
          /\ (ctx' = "terminated" /\ ctx # "terminated") =>
                sock = "closed" /\ sock' = "closed"
          /\ lpc \in {"stopped", "exited"} =>
                /\ lpc' \in {"stopped", "exited"}
                /\ ~Receives
                /\ out' = NoOut
                /\ sock' = "closed" /\ ctx' = "terminated"
         ]_vars
    /\ (Signalled ~> lpc = "stopped")

\* a message arrived after the signal and was never read: the service
\* has stopped with its socket closed and its context terminated
C12_StoppedWithMessageUnread ==
    /\ lpc = "stopped"
    /\ sock = "closed"
    /\ ctx = "terminated"
    /\ inbox # <<>>

\* C13: a handler in flight when the termination signal arrives ends only
\* by returning or raising, and its job guard is then released.
C13_InFlightWorkFinishes ==
    [][(~running /\ InHandler # {} /\ InHandler' = {}) =>
          out'.outcome.kind \in HandlerOutcomes /\ ~busy'
      ]_vars

(***************************************************************************)
(* The client                                                              *)
(***************************************************************************)
\* the attempt _request_once sent last
LastSent == sent[Len(sent)]
\* a request() has ended on a connected client
Ended == cpc = "idle" /\ csock # NoSocket /\ result # NoResult
\* the reply is a frame whose envelope is the error variant
IsErrorVariant(frames) ==
    /\ from_frames(frames).ok
    /\ decode_envelope(from_frames(frames).frame.body).ok
    /\ decode_envelope(from_frames(frames).frame.body).type = error
\* the payload of an error-variant reply
ErrorData(frames) == decode_envelope(from_frames(frames).frame.body).data
\* the reply is a frame whose request id is not that of the attempt
IsMismatch(frames, request_id) ==
    /\ from_frames(frames).ok
    /\ from_frames(frames).frame.request_id # request_id
\* the same reply with the request id the attempt was sent with
Matching(frames, request_id) ==
    to_frames([from_frames(frames).frame EXCEPT !.request_id = request_id])
\* min(initial * 2^(k-1), maximum)
CappedDoubling(config, k) ==
    IF config.reconnect_ivl_ms * 2^(k - 1) <= config.reconnect_ivl_max_ms
    THEN config.reconnect_ivl_ms * 2^(k - 1)
    ELSE config.reconnect_ivl_max_ms

\* C14: one request() makes at most max_retries + 1 send attempts; it ends
\* with TimeoutError only when that many attempts were sent, each of them
\* timed out (a sleep after every one but the last, no reply received), and
\* the error carries the timeout of the call: the configured timeout_ms
\* unless the caller passed a non-zero one.  A request() that received no
\* reply ends no other way.
C14_RetryBudget ==
    /\ Len(sent) <= cfg.max_retries + 1
    /\ result.kind = "TimeoutError" =>
          /\ Len(sent) = cfg.max_retries + 1
          /\ Len(slept) = cfg.max_retries
          /\ got = <<>>
          /\ result.exc.timeout_ms = locals.timeout
          /\ result.exc.timeout_ms =
                IF locals.timeout_ms \in {PyNone, PyInt(0)}
                THEN cfg.timeout_ms ELSE locals.timeout_ms.int
    /\ (Ended /\ sent # <<>> /\ got = <<>>) => result.kind = "TimeoutError"

\* the peer never replied to a client with the largest retry count
C14_AllAttemptsTimedOut ==
    /\ result.kind = "TimeoutError"
    /\ cfg.max_retries = MaxRetries
    /\ Len(sent) = MaxRetries + 1
    /\ cinbox = <<>>

\* C15: after a request() that returned a payload the consecutive-failure
\* counter is 0 and the success time is the clock reading of that return.
C15_SuccessResetsFailures ==
    result.kind = "return" =>
        /\ failures = 0
        /\ last_success = now
        /\ last_success > 0

\* a payload returned by the last attempt, after every earlier one timed out
C15_SuccessAfterTimeouts ==
    /\ result.kind = "return"
    /\ Len(slept) = MaxRetries
    /\ Len(sent) = MaxRetries + 1

\* C16: the attempts of one request() have pairwise different request ids
\* and were sent on pairwise different sockets, each configured from the
\* same options; the attempt in flight is on the current socket, and the
\* socket a retry is about to use has carried no earlier attempt.
C16_FreshConnectionPerAttempt ==
    /\ \A i, j \in 1..Len(sent) :
          i < j => /\ sent[i].request_id # sent[j].request_id
                   /\ sent[i].socket.gen # sent[j].socket.gen
                   /\ sent[i].socket.opts = sent[j].socket.opts
    /\ \A i \in 1..Len(sent) : sent[i].socket.opts = configure_socket(cfg)
    /\ cpc = "polling" => LastSent.socket = csock
    /\ (cpc = "attempt" /\ sent # <<>>) =>
          \A i \in 1..Len(sent) : sent[i].socket.gen # csock.gen

\* a second retry is in flight
C16_ThirdAttemptInFlight ==
    /\ cpc = "polling"
    /\ Len(sent) = 3

\* C17: the delay slept after the k-th timed-out attempt is
\* min(initial * 2^(k-1), maximum), and the delays never decrease.
C17_BackoffCappedDoubling ==
    /\ \A k \in 1..Len(slept) : slept[k] = CappedDoubling(cfg, k)
    /\ \A k \in 1..(Len(slept) - 1) : slept[k] <= slept[k + 1]

\* C18: a request() that received an error-variant reply has ended with a
\* ServiceError that carries the code and the message of the reply; an
\* attempt after the first is sent only after a timeout and its sleep.
C18_ErrorReplyNotRetried ==
    /\ (got # <<>> /\ IsErrorVariant(got)) =>
          /\ cpc = "idle"
          /\ result.kind = "ServiceError"
          /\ result.exc.code = ErrorData(got).code
          /\ result.exc.message = ErrorData(got).message
          /\ result.exc.service_name = cfg.name
    /\ Len(sent) <= Len(slept) + 1
    /\ Len(slept) < Len(sent) => cpc # "attempt"

\* the error reply came to a retry
C18_ErrorReplyToRetry ==
    /\ result.kind = "ServiceError"
    /\ got # <<>>
    /\ Len(sent) = 2
    /\ failures > 0

\* C19: a request() that received a reply whose request id is not that of
\* the attempt has ended, and ended as it would have on the same reply with
\* the matching id.
C19_MismatchedReplyAccepted ==
    (got # <<>> /\ IsMismatch(got, LastSent.request_id)) =>
        /\ cpc = "idle"
        /\ result = Outcome(request_once_reply(Matching(got, LastSent.request_id),
                                               cfg.name))

\* a payload returned from a reply with another request id
C19_StaleReplyReturned ==
    /\ got # <<>>
    /\ IsMismatch(got, LastSent.request_id)
    /\ result.kind = "return"

\* C20: a request() on a connected client ends with a payload, a
\* ServiceError or a TimeoutError, whatever the peer sends.
C20_ThreeOutcomes ==
    Ended => result.kind \in {"return", "ServiceError", "TimeoutError"}

(***************************************************************************)
(* Calls in flight                                                         *)
(***************************************************************************)
\* the calls in flight on the client: an attempt sent, neither answered nor
\* timed out
InFlight == {c \in {"first", "second"} :
                \/ c = "first" /\ cpc = "polling"
                \/ c = "second" /\ other.pc = "polling"}

\* C21: at most one call is in flight on a client instance, and a task that
\* received a well-formed reply received one with the request id it sent or
\* with an id no task of the client sent.
C21_OneCallInFlight ==
    /\ Cardinality(InFlight) <= 1
    /\ (other.pc = "done" /\ other.got # <<>> /\ from_frames(other.got).ok /\ sent # <<>>) =>
          from_frames(other.got).frame.request_id # LastSent.request_id

\* C22: is_healthy is true exactly when the consecutive-failure counter is
\* below 5, and nothing in request() depends on it: on an unhealthy client
\* too a call is accepted, its attempt is sent and a waiting reply is
\* received, and every call ends as _request_once makes of the reply.
C22_HealthIsAdvisory ==
    /\ is_healthy(failures) <=> failures < 5
    /\ ~is_healthy(failures) =>
          /\ (cpc = "idle" /\ nreq < MaxRequests) => ENABLED Request(PyNone)
          /\ cpc = "attempt" => ENABLED RequestOnceSend
          /\ (cpc = "polling" /\ cinbox # <<>>) => ENABLED RequestOnceRecv
    /\ got # <<>> => result = Outcome(request_once_reply(got, cfg.name))

\* an unhealthy client has an attempt in flight and its payload is waiting
C22_UnhealthyAboutToSucceed ==
    /\ ~is_healthy(failures)
    /\ cpc = "polling"
    /\ cinbox # <<>>
    /\ request_once_reply(Head(cinbox), cfg.name).raised = "none"

(***************************************************************************)
(* Client and service together                                             *)
(***************************************************************************)
\* the calls of handle_request made for the attempts of the running request()
HandledForCall ==
    {i \in DOMAIN wire.handled :
        \E j \in DOMAIN sent : wire.handled[i].request_id = sent[j].request_id}

\* C23: a request("echo", params) that returns returns the mapping
\* handle_request returned for the params it sent, and handle_request was
\* called once for that request.
C23_EchoReturnsOwnParams ==
    (cpc = "idle" /\ result.kind = "return") =>
        /\ result.data = echo_handle_request(echo, locals.params)
        /\ Cardinality(HandledForCall) = 1
        /\ \A i \in HandledForCall :
              /\ wire.handled[i].params = locals.params
              /\ wire.handled[i].response = result.data

\* a request() returned what handle_request returned for its params
C23_EchoAnswered ==
    /\ cpc = "idle"
    /\ result.kind = "return"
    /\ result.data = echo_handle_request(echo, locals.params)
    /\ Cardinality(HandledForCall) = 1

(***************************************************************************)
(* The frame codec                                                         *)
(***************************************************************************)
\* C24: for every valid frame F, of every command and content type, with
\* an empty or non-empty traceparent and body, from_frames(F.to_frames())
\* returns a frame equal to F.
C24_FrameRoundTrip ==
    ret.done = <<"to_frames", "from_frames">> =>
        ret.parsed = [ok |-> TRUE, frame |-> arg.frame]

\* a DISCONNECT frame of JSON content with empty traceparent and empty body
\* went through to_frames and from_frames
C24_EmptyFrameRoundTripped ==
    /\ ret.done = <<"to_frames", "from_frames">>
    /\ arg.frame.command = DISCONNECT
    /\ arg.frame.content_type = JSON
    /\ arg.frame.traceparent = <<>>
    /\ arg.frame.body = Raw(<<>>)
    /\ ret.parsed.ok

\* the fields of a frame other than its identity
FrameFields(f) == [f EXCEPT !.identity = None]

\* C25: for every identity prefix of N >= 0 parts of any content and every
\* valid frame F, parsing the prefix followed by the parts of F returns the
\* prefix, part for part, and a frame with the fields of F.
C25_IdentityRecovered ==
    ret.done = <<"to_frames_with_identity", "from_frames_with_identity">> =>
        /\ ret.parsed.ok
        /\ ret.parsed.identity.parts = arg.identity
        /\ FrameFields(ret.parsed.frame) = FrameFields(arg.frame)

\* the identity prefix holds no part equal to the marker
NoMarkerInIdentity == \A i \in DOMAIN arg.identity : arg.identity[i] # PROTOCOL_VERSION

\* C25 (amended): for every identity prefix of N >= 0 parts none of which
\* equals the marker and every valid frame F, parsing the prefix followed by
\* the parts of F returns the prefix, part for part (None for N = 0), and a
\* frame with the fields of F; a prefix that holds the marker is not
\* recovered.
C25_IdentityRecoveredUnlessMarker ==
    ret.done = <<"to_frames_with_identity", "from_frames_with_identity">> =>
        IF NoMarkerInIdentity
        THEN /\ ret.parsed.ok
             /\ ret.parsed.identity.parts = arg.identity
             /\ ret.parsed.identity.none <=> arg.identity = <<>>
             /\ FrameFields(ret.parsed.frame) = FrameFields(arg.frame)
        ELSE ~(ret.parsed.ok /\ ret.parsed.identity.parts = arg.identity)

\* a prefix of two parts, neither of them the marker, was recovered
C25_TwoPartPrefixRecovered ==
    /\ ret.done = <<"to_frames_with_identity", "from_frames_with_identity">>
    /\ Len(arg.identity) = 2
    /\ NoMarkerInIdentity
    /\ ret.parsed.ok
    /\ ret.parsed.identity.parts = arg.identity
    /\ FrameFields(ret.parsed.frame) = FrameFields(arg.frame)

\* the parts from the first marker on, and the 16-bit code a part holds
FromMarker(parts) ==
    IF ProtoIdx(parts) = 0 THEN <<>> ELSE SubSeq(parts, ProtoIdx(parts), Len(parts))
HasCode(p, codes) == Len(p.raw) >= 2 /\ (p.raw[1] * 256 + p.raw[2]) \in codes

\* the causes of failure, in the order of the fields
Causes == <<"marker", "count", "command", "content_type", "request_id",
            "service", "traceparent">>
Holds(cause, parts) ==
    CASE cause = "marker" -> \A i \in DOMAIN parts : parts[i] # PROTOCOL_VERSION
      [] cause = "count" -> ProtoIdx(parts) > 0 /\ Len(FromMarker(parts)) < 7
      [] cause = "command" ->
            Len(FromMarker(parts)) >= 2 /\ ~HasCode(FromMarker(parts)[2], 1..5)
      [] cause = "content_type" ->
            Len(FromMarker(parts)) >= 3 /\ ~HasCode(FromMarker(parts)[3], 0..3)
      [] cause = "request_id" -> Len(FromMarker(parts)) >= 4 /\ Len(FromMarker(parts)[4].raw) < 16
      [] cause = "service" -> Len(FromMarker(parts)) >= 5 /\ ~Utf8Decode(FromMarker(parts)[5]).ok
      [] cause = "traceparent" -> Len(FromMarker(parts)) >= 6 /\ ~Utf8Decode(FromMarker(parts)[6]).ok
CausesOf(parts) == {i \in DOMAIN Causes : Holds(Causes[i], parts)}
FirstCause(parts) ==
    Causes[CHOOSE i \in CausesOf(parts) : \A j \in CausesOf(parts) : i <= j]

\* the FrameError messages that name each cause
ErrorsOf(cause) ==
    CASE cause = "marker" -> {"Invalid protocol version: expected HOOT01"}
      [] cause = "count" -> {"Missing frame: insufficient frames after HOOT01"}
      [] cause = "command" -> {"Frame too short: command needs 2 bytes", "Invalid command"}
      [] cause = "content_type" ->
            {"Frame too short: content-type needs 2 bytes", "Invalid content type"}
      [] cause = "request_id" -> {"Frame too short: request ID needs 16 bytes"}
      [] cause = "service" -> {"Invalid UTF-8 in service name"}
      [] cause = "traceparent" -> {"Invalid UTF-8 in traceparent"}

C27_RequestIdExactly16 ==
    (arg.kind = "parts" /\ ret.done = <<"from_frames_with_identity">> /\ ret.parsed.ok) =>
        Len(arg.parts[4].raw) = 16

\* a message with a request-id part of 15 bytes was refused
C27_ShortRequestIdRefused ==
    /\ arg.kind = "parts"
    /\ ret.done = <<"from_frames_with_identity">>
    /\ Len(arg.parts) >= 7
    /\ Len(arg.parts[4].raw) = 15
    /\ ~ret.parsed.ok
    /\ ret.parsed.error = "Frame too short: request ID needs 16 bytes"

(***************************************************************************)
(* The envelope codec                                                      *)
(***************************************************************************)
\* an encoder accepted the name and decode_envelope was applied to its body
NameDecoded ==
    /\ arg.kind = "name"
    /\ Len(ret.done) = 2
    /\ ret.done[2] = "decode_envelope"

\* C28: for every tool name or response name the encoder accepts, the name
\* decode_envelope returns for the encoded body is the name that was
\* encoded.
C28_NameRoundTrip == NameDecoded => (ret.decoded.ok /\ ret.decoded.type = arg.name)

\* a tool name of three words came back as it was encoded
C28_SnakeCaseNameRoundTripped ==
    /\ NameDecoded
    /\ arg.name = cas_upload_file
    /\ ret.decoded.ok
    /\ ret.decoded.type = arg.name

\* an error envelope was encoded and decode_envelope was applied to it
ErrorDecoded ==
    /\ arg.kind = "error"
    /\ ret.done = <<"encode_error_response", "decode_envelope">>

\* C29: for every code and message, decode_envelope of the body
\* encode_error_response built returns the type "error" and a mapping with
\* the two keys code and message, holding the encoded values.
C29_ErrorEnvelopeRoundTrip ==
    ErrorDecoded =>
        /\ ret.decoded.ok
        /\ ret.decoded.type = error
        /\ DOMAIN ret.decoded.data = {"code", "message"}
        /\ ret.decoded.data.code = arg.code
        /\ ret.decoded.data.message = arg.message

\* the error not_found, "X not found" came back as it was encoded
C29_NotFoundDecoded ==
    /\ ErrorDecoded
    /\ arg.code = "not_found"
    /\ arg.message = Msg("X not found", <<>>)
    /\ ret.decoded.data = [code |-> "not_found", message |-> Msg("X not found", <<>>)]

(***************************************************************************)
(* The error taxonomy                                                      *)
(***************************************************************************)
\* an error went through to_dict and from_dict
DictRoundTripped == arg.kind = "tool_error" /\ ret.done = <<"to_dict", "from_dict">>

\* C30: for every ToolError e of every category, from_dict(to_dict(e)) has
\* the category, the message and the details of e.
C30_DictRoundTrip ==
    DictRoundTripped =>
        /\ ret.exc.category = arg.exc.category
        /\ ret.exc.message = arg.exc.message
        /\ ret.exc.details = arg.exc.details

\* a ValidationError with its field came back with the same details
C30_ValidationErrorRoundTripped ==
    /\ DictRoundTripped
    /\ arg.exc.cls = "ValidationError"
    /\ arg.exc.fields.field_name = "x"
    /\ ret.exc.category = "validation"
    /\ ret.exc.details = arg.exc.details

(***************************************************************************)
(* The headless runner                                                     *)
(***************************************************************************)
\* C31: once a call of initialize() has returned, whatever the number of
\* calls made, the service instance of the runner is the one the first call
\* created and load_model() has been called exactly once.
C31_InitializeIdempotent ==
    runner.done >= 1 => runner.service = 1 /\ runner.loads = 1

\* two calls of initialize(), one after the other, left one instance loaded
C31_SecondCallReturnedAtOnce ==
    /\ runner.done = 2
    /\ runner.created = 1
    /\ runner.loads = 1
    /\ \A t \in InitTasks : runner.pc[t] = "idle"

\* a step that is one call of run_tool()
RunToolStep == runner'.nrun = runner.nrun + 1
\* the runner is not initialized: no call of initialize() has completed
NotInitialized == ~runner.initialized \/ runner.service = 0

\* C32: a run_tool() before initialize() has completed raises RuntimeError,
\* calls no handle_request and stores nothing; every run_tool() after it
\* calls handle_request exactly once.
C32_OneHandleRequestPerRun ==
    [][RunToolStep =>
          IF NotInitialized
          THEN /\ runner'.result.kind = "RuntimeError"
               /\ runner'.handled = runner.handled
               /\ runner'.cas = runner.cas
          ELSE runner'.handled = runner.handled + 1]_vars

\* C32 as the code has it: the same before initialize(); after it a
\* run_tool() either calls handle_request exactly once, or it raises
\* FileNotFoundError for an input file that does not exist and calls none.
C32_OneHandleRequestUnlessFileMissing ==
    [][RunToolStep =>
          IF NotInitialized
          THEN /\ runner'.result.kind = "RuntimeError"
               /\ runner'.handled = runner.handled
               /\ runner'.cas = runner.cas
          ELSE IF runner'.result.kind = "FileNotFoundError"
               THEN /\ runner'.result.path \notin DOMAIN Files
                    /\ runner'.handled = runner.handled
               ELSE runner'.handled = runner.handled + 1]_vars

\* a handled call, then a call naming a missing file that was not handled
C32_MissingFileAfterHandledCall ==
    /\ runner.nrun = 2
    /\ runner.handled = 1
    /\ runner.result.kind = "FileNotFoundError"

\* item i of a params mapping names a file to store
IsFileItem(item) == item.key \in DOMAIN DEFAULT_FILE_PARAM_MAPPING /\ item.value # PyNone
\* the hash key of an item is also set from a file named in the mapping
HashFromFile(given, item) ==
    \E j \in 1..Len(given) :
        IsFileItem(given[j]) /\ DEFAULT_FILE_PARAM_MAPPING[given[j].key] = item.key
\* what handle_request was given answers the params of run_tool
Converted(given, received) ==
    \A i \in 1..Len(given) :
        IF IsFileItem(given[i])
        THEN /\ given[i].key \notin DOMAIN received
             /\ DEFAULT_FILE_PARAM_MAPPING[given[i].key] \in DOMAIN received
             /\ received[DEFAULT_FILE_PARAM_MAPPING[given[i].key]]
                    = PyStr(hash_bytes(Files[given[i].value.str]))
        ELSE \/ HashFromFile(given, given[i])
             \/ /\ given[i].key \in DOMAIN received
                /\ received[given[i].key] = given[i].value

\* C33: whatever params run_tool() is given, the handler receives for each
\* file key with a value the mapped hash key holding the hash of that file
\* and not the file key, every other parameter as it was, and the hash of
\* the file where a file key and its hash key are both given, in either
\* order.
C33_FileParamsConverted ==
    runner.last_request.kind = "request" =>
        Converted(runner.last_request.given, runner.last_request.params)

\* an explicit hash given before the file key was replaced by the file's
C33_FileWinsOverEarlierHash ==
    /\ runner.last_request.kind = "request"
    /\ runner.last_request.given = <<[key |-> "midi_hash", value |-> PyStr("abc")],
                                     [key |-> "input_file", value |-> PyStr("a.mid")]>>
    /\ runner.last_request.params = "midi_hash" :> PyStr(hash_bytes("midi a"))

(***************************************************************************)
(* Replies and the attempts they answer                                    *)
(***************************************************************************)
\* request() ended with what a reply of the service held
Answered == cpc = "idle" /\ result.kind \in {"return", "ServiceError"}

\* C34: whatever request() returns or raises as ServiceError was read from
\* the reply to the request id of the attempt that was waiting, never from a
\* reply to an earlier attempt that timed out.
C34_AnswerOfWaitingAttempt ==
    Answered => from_frames(got).frame.request_id = sent[Len(sent)].request_id

\* the send_multipart calls of the last step that returned
SentCalls == {i \in 1..Len(out.calls) : out.calls[i].ok}
\* the call sent a REPLY to the sender of msg with msg's request id
IsReplyTo(c, msg) ==
    LET r == from_frames_with_identity(c.frames) IN
    /\ r.ok
    /\ r.frame.command = REPLY
    /\ r.frame.request_id = msg.frame.request_id
    /\ r.identity = msg.identity

\* C35: the task of a REQUEST, however it ends (rejection, return, ToolError,
\* other exception, failure to encode or to send), sends at most one frame,
\* and a frame it sends is a REPLY with the request id of the REQUEST
\* addressed to the identity the REQUEST came from.
C35_AtMostOneReply ==
    FinishedRequest =>
        /\ Cardinality(SentCalls) <= 1
        /\ \A i \in SentCalls : IsReplyTo(out.calls[i], Done)

\* the response could not be encoded and one error reply was sent
C35_EncodeFailureAnsweredOnce ==
    /\ FinishedRequest
    /\ out.outcome.kind = "return"
    /\ ~out.outcome.encodes
    /\ Len(out.calls) = 1
    /\ SentCalls = {1}
    /\ IsReplyTo(out.calls[1], Done)

(***************************************************************************)
(* A retry that meets its own handler                                      *)
(***************************************************************************)
\* the request ids of the attempts of the running request() before the last
EarlierAttempts == {sent[i].request_id : i \in 1..(Len(sent) - 1)}
\* the handlers in flight for attempts of the running request()
HandlersOfCall ==
    {t \in InHandler : \E i \in 1..Len(sent) : t.frame.request_id = sent[i].request_id}
\* the handler of an earlier attempt is still running
EarlierHandlerRuns == \E t \in InHandler : t.frame.request_id \in EarlierAttempts

\* the task of the latest attempt was turned away while the handler of an
\* earlier attempt of the same request() is running
RetryRejected ==
    /\ Rejected
    /\ sent # <<>>
    /\ Done.frame.request_id = sent[Len(sent)].request_id
    /\ EarlierHandlerRuns

\* C36: when an attempt timed out while its handler is still running and
\* the retry reaches the service before the handler has finished, the retry
\* is answered with the busy error of the job guard, request() is waiting
\* for that answer and ends with that ServiceError and not with the
\* handler's result, and at no time are two handlers running for attempts
\* of one request().
C36_RetryMeetsBusyGuard ==
    /\ Cardinality(HandlersOfCall) <= 1
    /\ RetryRejected =>
          /\ Len(out.calls) = 1
          /\ out.calls[1].ok
          /\ IsErrorReply(out.calls[1], Done)
          /\ ErrorMessage(out.calls[1]) = BusyMessage
          /\ cpc = "polling"
    /\ (Answered /\ EarlierHandlerRuns) =>
          /\ result.kind = "ServiceError"
          /\ result.exc.message = BusyMessage
          /\ from_frames(got).frame.request_id = sent[Len(sent)].request_id

\* C36 as the code has it: the retry is answered with the busy error of the
\* job guard; the answer reaches the client when the retry is still waiting
\* for it, and a request() that ends with an answer while the earlier
\* handler runs ends with that ServiceError.  A retry that timed out before
\* it was turned away leaves request() to its next attempt or to its
\* TimeoutError.  At no time are two handlers running for attempts of one
\* request().
C36_RetryMeetsBusyGuardWhileWaiting ==
    /\ Cardinality(HandlersOfCall) <= 1
    /\ RetryRejected =>
          /\ IsErrorReply(out.calls[1], Done)
          /\ ErrorMessage(out.calls[1]) = BusyMessage
          /\ cpc = "polling" => Len(out.calls) = 1 /\ out.calls[1].ok
          /\ cpc # "polling" =>
                \/ cpc \in {"sleeping", "reconnecting", "attempt"}
                \/ cpc = "idle" /\ result.kind = "TimeoutError"
    /\ (Answered /\ EarlierHandlerRuns) =>
          /\ result.kind = "ServiceError"
          /\ result.exc.message = BusyMessage
          /\ from_frames(got).frame.request_id = sent[Len(sent)].request_id

\* request() ended with the busy error while the handler of its first
\* attempt was still running
C36_RetryRejectedHandlerRunning ==
    /\ Answered
    /\ Len(sent) = 2
    /\ EarlierHandlerRuns
    /\ result.kind = "ServiceError"
    /\ result.exc.message = BusyMessage

(***************************************************************************)
(* Replies that cannot be routed                                           *)
(***************************************************************************)
\* the task of a request ended and every send_multipart it made raised
UnroutableReply ==
    /\ FinishedRequest
    /\ out.calls # <<>>
    /\ \A i \in 1..Len(out.calls) : ~out.calls[i].ok

\* C37: when no reply to a request can be sent because its sender is not
\* routable, the job guard is not left held by that request (it is Idle
\* after an admitted request, and Busy only under another running handler),
\* the accept loop is where it was, with its socket, its running flag and
\* the messages queued, and a heartbeat the loop is about to take is
\* answered.
C37_UnroutableReplyConfined ==
    /\ [](UnroutableReply =>
             /\ busy => InHandler # {}
             /\ out.outcome.kind # "none" => ~busy)
    /\ [][UnroutableReply' =>
             /\ running' = running
             /\ lpc' = lpc
             /\ sock' = sock
             /\ ctx' = ctx
             /\ inbox' = inbox]_vars
    /\ \A m \in HeartbeatMessages :
          (UnroutableReply /\ lpc = "polling" /\ inbox # <<>> /\ Head(inbox) = m)
              ~> (out.frames = m /\ Len(out.calls) = 1
                    /\ IsHeartbeatReply(out.calls[1], Done))

\* the reply of a handler that returned could not be sent, the guard is
\* Idle and the loop is polling with a heartbeat of another peer queued
C37_LoopPollingAfterFailedSend ==
    /\ UnroutableReply
    /\ out.outcome.kind = "return"
    /\ ~busy
    /\ running
    /\ lpc = "polling"
    /\ inbox # <<>>
    /\ Head(inbox) \in HeartbeatMessages
    /\ Head(inbox)[1] # Done.identity.parts[1]

(***************************************************************************)
(* The backoff and the failure counter                                     *)
(***************************************************************************)
\* C38: whatever the initial and the maximum interval of the configuration,
\* no delay slept between two attempts of a request(), the first included,
\* is longer than the maximum interval.
C38_SleepWithinMaximum ==
    \A k \in 1..Len(slept) : slept[k] <= cfg.reconnect_ivl_max_ms

\* two delays were slept, the second one cut to the maximum
C38_SecondSleepCapped ==
    /\ Len(slept) = 2
    /\ cfg.reconnect_ivl_ms = 2
    /\ cfg.reconnect_ivl_max_ms = 2
    /\ slept = <<2, 2>>

\* the attempt in flight times out
TimesOut == cpc = "polling" /\ cinbox = <<>> /\ cpc' # "polling"
\* the attempt in flight receives a reply and request() ends as kind
ReceivesAs(kind) == cpc = "polling" /\ cinbox # <<>> /\ cpc' = "idle" /\ result'.kind = kind
\* request() is called on a client with no socket
CalledUnconnected == cpc = "new" /\ nreq' = nreq + 1

NotConnected ==
    [kind |-> "ServiceError",
     exc |-> ServiceError(Msg("Client not connected", <<>>), cfg.name, "not_connected",
                          FALSE)]

\* C40: request() on a client that was never connected, or that was closed,
\* raises ServiceError with code not_connected; it sends no frame, sleeps
\* and retries nothing and opens no socket.
C40_NotConnected ==
    [][CalledUnconnected =>
          /\ result' = NotConnected
          /\ result'.exc.code = "not_connected"
          /\ csock = NoSocket /\ csock' = NoSocket
          /\ cpc' = "new"
          /\ sent' = sent
          /\ slept' = slept
          /\ nuuid' = nuuid
          /\ locals' = locals]_vars

\* a client that had sent an attempt was closed, and the request() made
\* after that was refused
C40_RefusedAfterClose ==
    /\ cpc = "new"
    /\ csock = NoSocket
    /\ nuuid > 0
    /\ nreq = 2
    /\ result = NotConnected

====
